---- MODULE Spec2Model ----
(***************************************************************************)
(* Model of the vault <-> GitHub sync engine of obsidian-github:            *)
(* SyncService (src/src/services/syncService.ts) driven by                  *)
(* GitHubOctokitPlugin.performSync (src/main.ts).                           *)
(*                                                                          *)
(* A file content is an abstract value 1..MaxContent; Absent means that     *)
(* no file exists at the path.  The vault is the local tree, remoteTree    *)
(* the tree of the branch head.  One sync invocation runs through the       *)
(* phases of SyncService.sync, one action per awaited stage:                *)
(*   idle -> pull -> push -> rebuild -> done -> idle.                        *)
(* A sync that raises goes to raised and back to idle (Spec).               *)
(*                                                                          *)
(* Three more specifications look closer at one part each:                  *)
(*   SpecBatch   GitHubService.createBatchCommit, one action per awaited    *)
(*               call, against a branch another writer pushes to;           *)
(*   SpecPlugin  performSync under its triggers and the isSyncing flag;     *)
(*   SpecPaths   toRemotePath / toLocalPath on paths spelled out as         *)
(*               character sequences, for any text of the subfolder         *)
(*               setting.                                                   *)
(* All share Init; the variables of the parts a specification does not      *)
(* move keep their initial values.                                          *)
(***************************************************************************)
EXTENDS Integers, FiniteSets, Sequences, TLC

\* ------------------------------------------------------------------ bounds

\* number of distinct file contents
MaxContent == 2

\* ------------------------------------------------------------ value spaces

\* note files of the vault and of the branch
Paths == {"a.md", "b.md"}

\* a file the default ignore patterns keep out of the sync; it lives in the
\* vault only
IgnoredPaths == {".obsidian/workspace.json"}

Files == Paths \cup IgnoredPaths

Absent == 0
Contents == 1..MaxContent

Directions == {"pull", "push", "sync"}

\* values of options.paths; the empty set stands for "no filter"
PathFilters == {{}, {"a.md"}}

\* a missing map entry (undefined in the source)
NoEntry == <<"none", 0>>

\* plugin.syncState = null / lastSyncState = undefined
NoState ==
    [present |-> FALSE,
     fileHashes |-> [p \in Files |-> NoEntry],
     fileShas |-> [p \in Files |-> NoEntry]]

NoRun == [direction |-> "none", paths |-> {}, clean |-> FALSE]

\* ------------------------------------------------------------------ hashes

\* djb2 digest of a file's content; distinct contents of the model have
\* distinct digests
hashContent(c) == <<"djb2", c>>

\* object id GitHub reports for a blob (tree entry sha), which is also the
\* address hash of a local file of the same content: the contents of the
\* synchronised files hold no CR, so the line-ending normalisation of
\* computeGitBlobSha leaves them as they are
blobSha(c) == <<"sha1", c>>

\* base64 transport encoding of a content and its decoding
encodeBase64(c) == <<"b64", c>>
decodeBase64(b) == b[2]

\* --------------------------------------------------------------- indexes

\* the spelling of the file names: a path is matched, normalised and mapped
\* as the sequence of its characters
fileChars ==
    "a.md" :> <<"a", ".", "m", "d">>
    @@ "b.md" :> <<"b", ".", "m", "d">>
    @@ ".obsidian/workspace.json" :> <<".", "o", "b", "s", "i", "d", "i", "a", "n", "/", "w", "o", "r", "k", "s", "p", "a", "c", "e", ".", "j", "s", "o", "n">>

RECURSIVE collapseSlashes(_)
collapseSlashes(s) ==
    IF Len(s) <= 1 THEN s
    ELSE IF s[1] = "/" /\ s[2] = "/" THEN collapseSlashes(Tail(s))
    ELSE <<s[1]>> \o collapseSlashes(Tail(s))

\* normalizePath: backslashes to slashes, runs of slashes to one, then one
\* leading and one trailing slash removed
normalizePath(path) ==
    LET forward == [i \in 1..Len(path) |-> IF path[i] = "\\" THEN "/" ELSE path[i]]
        collapsed == collapseSlashes(forward)
        headless == IF Len(collapsed) > 0 /\ collapsed[1] = "/"
                    THEN Tail(collapsed) ELSE collapsed
    IN  IF Len(headless) > 0 /\ headless[Len(headless)] = "/"
        THEN SubSeq(headless, 1, Len(headless) - 1)
        ELSE headless

startsWith(s, prefix) ==
    Len(prefix) <= Len(s) /\ SubSeq(s, 1, Len(prefix)) = prefix

\* String.replace(/from/g, to): every occurrence, left to right, the
\* replacement not scanned again
RECURSIVE replaceAll(_, _, _)
replaceAll(s, from, to) ==
    IF Len(s) < Len(from) THEN s
    ELSE IF startsWith(s, from)
    THEN to \o replaceAll(SubSeq(s, Len(from) + 1, Len(s)), from, to)
    ELSE <<s[1]>> \o replaceAll(Tail(s), from, to)

\* replace(/[.+^${}()|[\]\\]/g, '\\$&')
RECURSIVE escapeRegex(_)
escapeRegex(s) ==
    LET special == {".", "+", "^", "$", "{", "}", "(", ")", "|", "[", "]", "\\"}
    IN  IF s = <<>> THEN <<>>
        ELSE (IF s[1] \in special THEN <<"\\", s[1]>> ELSE <<s[1]>>)
             \o escapeRegex(Tail(s))

GlobstarPlaceholder == <<"{", "{", "G", "L", "O", "B", "S", "T", "A", "R", "}", "}">>

\* the source of the regular expression matchPattern builds from a pattern
regexPattern(pattern) ==
    replaceAll(
        replaceAll(
            replaceAll(
                replaceAll(escapeRegex(pattern), <<"*", "*">>, GlobstarPlaceholder),
                <<"*">>, <<"[", "^", "/", "]", "*">>),
            <<"?">>, <<"[", "^", "/", "]">>),
        GlobstarPlaceholder, <<".", "*">>)

\* new RegExp('^' + source + '$').test(s), for the sources regexPattern
\* produces: \c, [^/]*, [^/], .* and plain characters
RECURSIVE regexTest(_, _)
regexTest(source, s) ==
    LET rest(k) == SubSeq(s, k + 1, Len(s))
        after(k) == SubSeq(source, k + 1, Len(source))
    IN  IF source = <<>> THEN s = <<>>
        ELSE IF startsWith(source, <<"[", "^", "/", "]", "*">>)
        THEN \E k \in 0..Len(s) :
                /\ \A i \in 1..k : s[i] # "/"
                /\ regexTest(after(5), rest(k))
        ELSE IF startsWith(source, <<"[", "^", "/", "]">>)
        THEN s # <<>> /\ s[1] # "/" /\ regexTest(after(4), rest(1))
        ELSE IF startsWith(source, <<".", "*">>)
        THEN \E k \in 0..Len(s) : regexTest(after(2), rest(k))
        ELSE IF source[1] = "\\"
        THEN s # <<>> /\ s[1] = source[2] /\ regexTest(after(2), rest(1))
        ELSE s # <<>> /\ s[1] = source[1] /\ regexTest(after(1), rest(1))

\* matchPattern that lets * run across '/'
matchPattern_StarCrossesSlash(path, pattern) ==
    regexTest(replaceAll(replaceAll(escapeRegex(pattern), <<"*">>, <<".", "*">>),
                         <<"?">>, <<"[", "^", "/", "]">>),
              path)

matchPattern(path, pattern) == regexTest(regexPattern(pattern), path)

matchesIgnorePattern(path, patterns) ==
    LET normalizedPath == normalizePath(path)
    IN  \E pattern \in patterns : matchPattern(normalizedPath, normalizePath(pattern))

\* settings.ignorePatterns (the defaults), as passed to the SyncService
ignorePatterns ==
    {<<".", "o", "b", "s", "i", "d", "i", "a", "n", "/", "w", "o", "r", "k", "s", "p", "a", "c", "e", ".", "j", "s", "o", "n">>,
     <<".", "o", "b", "s", "i", "d", "i", "a", "n", "/", "w", "o", "r", "k", "s", "p", "a", "c", "e", "-", "m", "o", "b", "i", "l", "e", ".", "j", "s", "o", "n">>,
     <<".", "o", "b", "s", "i", "d", "i", "a", "n", "/", "g", "i", "t", "h", "u", "b", "-", "s", "y", "n", "c", "-", "m", "e", "t", "a", "d", "a", "t", "a", ".", "j", "s", "o", "n">>,
     <<".", "g", "i", "t", "/", "*", "*">>,
     <<".", "g", "i", "t", "i", "g", "n", "o", "r", "e">>}

\* shouldIgnore over the file names of the model, evaluated once: the
\* patterns are fixed at construction
ignoredFiles ==
    {p \in DOMAIN fileChars : matchesIgnorePattern(fileChars[p], ignorePatterns)}

shouldIgnore(p) == p \in ignoredFiles

\* subfolderPath = '' (constructor default): the remote path is the local one
toRemotePath(p) == p
toLocalPath(p) == p

buildLocalIndex(v) ==
    [p \in Files |->
        IF v[p] = Absent \/ shouldIgnore(p) THEN NoEntry ELSE hashContent(v[p])]

buildRemoteIndex(t) ==
    [p \in Files |->
        IF t[toRemotePath(p)] = Absent \/ shouldIgnore(p)
        THEN NoEntry ELSE blobSha(t[toRemotePath(p)])]

\* lastSyncState?.fileHashes[path] and lastSyncState?.fileShas[path]
lastHashOf(st, p) == IF st.present THEN st.fileHashes[p] ELSE NoEntry
lastShaOf(st, p) == IF st.present THEN st.fileShas[p] ELSE NoEntry

\* ------------------------------------------------------------- comparison

\* compareStatus with a missing baseline entry read as "not changed"
compareStatus_MissingEntryUnchanged(local, remote, lastHash, lastSha) ==
    IF local # NoEntry /\ remote # NoEntry
    THEN LET localChanged == lastHash # NoEntry /\ local # lastHash
             remoteChanged == lastSha # NoEntry /\ remote # lastSha
         IN  IF localChanged /\ remoteChanged THEN "conflict"
             ELSE IF localChanged THEN "modified"
             ELSE IF remoteChanged THEN "modified"
             ELSE "unchanged"
    ELSE IF local # NoEntry /\ remote = NoEntry
    THEN IF lastSha # NoEntry THEN "deleted" ELSE "added"
    ELSE IF local = NoEntry /\ remote # NoEntry
    THEN IF lastHash # NoEntry THEN "deleted" ELSE "added"
    ELSE "none"

\* compareStatus with the two baseline maps swapped on one-sided paths
compareStatus_SwappedMaps(local, remote, lastHash, lastSha) ==
    IF local # NoEntry /\ remote # NoEntry
    THEN LET localChanged == IF lastHash # NoEntry THEN local # lastHash ELSE TRUE
             remoteChanged == IF lastSha # NoEntry THEN remote # lastSha ELSE TRUE
         IN  IF localChanged /\ remoteChanged THEN "conflict"
             ELSE IF localChanged THEN "modified"
             ELSE IF remoteChanged THEN "modified"
             ELSE "unchanged"
    ELSE IF local # NoEntry /\ remote = NoEntry
    THEN IF lastHash # NoEntry THEN "deleted" ELSE "added"
    ELSE IF local = NoEntry /\ remote # NoEntry
    THEN IF lastSha # NoEntry THEN "deleted" ELSE "added"
    ELSE "none"

\* compareStatus with the baseline test of one-sided paths inverted
compareStatus_OneSidedInverted(local, remote, lastHash, lastSha) ==
    IF local # NoEntry /\ remote # NoEntry
    THEN LET localChanged == IF lastHash # NoEntry THEN local # lastHash ELSE TRUE
             remoteChanged == IF lastSha # NoEntry THEN remote # lastSha ELSE TRUE
         IN  IF localChanged /\ remoteChanged THEN "conflict"
             ELSE IF localChanged THEN "modified"
             ELSE IF remoteChanged THEN "modified"
             ELSE "unchanged"
    ELSE IF local # NoEntry /\ remote = NoEntry
    THEN IF lastSha = NoEntry THEN "deleted" ELSE "added"
    ELSE IF local = NoEntry /\ remote # NoEntry
    THEN IF lastHash = NoEntry THEN "deleted" ELSE "added"
    ELSE "none"

\* status of one path in compareIndexes; "none" when the path is in neither
\* index (no entry is pushed to the result list)
compareStatus(local, remote, lastHash, lastSha) ==
    IF local # NoEntry /\ remote # NoEntry
    THEN LET localChanged == IF lastHash # NoEntry THEN local # lastHash ELSE TRUE
             remoteChanged == IF lastSha # NoEntry THEN remote # lastSha ELSE TRUE
         IN  IF localChanged /\ remoteChanged THEN "conflict"
             ELSE IF localChanged THEN "modified"
             ELSE IF remoteChanged THEN "modified"
             ELSE "unchanged"
    ELSE IF local # NoEntry /\ remote = NoEntry
    THEN IF lastSha # NoEntry THEN "deleted" ELSE "added"
    ELSE IF local = NoEntry /\ remote # NoEntry
    THEN IF lastHash # NoEntry THEN "deleted" ELSE "added"
    ELSE "none"

compareIndexes(li, ri, st) ==
    [p \in Files |-> compareStatus(li[p], ri[p], lastHashOf(st, p), lastShaOf(st, p))]

\* options.paths filter of sync: a filtered-out change leaves the list
filterChanges(ch, paths) ==
    [p \in Files |-> IF paths # {} /\ p \notin paths THEN "none" ELSE ch[p]]

\* inToPull without the conflict test
inToPull_NoConflictTest(status, local, remote, lastSha, dir) ==
    IF dir = "push" THEN FALSE
    ELSE IF remote = NoEntry /\ local # NoEntry THEN FALSE
    ELSE IF remote # NoEntry /\ local = NoEntry THEN TRUE
    ELSE lastSha # NoEntry /\ remote # NoEntry /\ remote # lastSha

\* inToPull that also takes the local-only paths
inToPull_LocalOnlyPulled(status, local, remote, lastSha, dir) ==
    IF status = "conflict" THEN FALSE
    ELSE IF dir = "push" THEN FALSE
    ELSE IF remote = NoEntry /\ local # NoEntry THEN TRUE
    ELSE IF remote # NoEntry /\ local = NoEntry THEN TRUE
    ELSE lastSha # NoEntry /\ remote # NoEntry /\ remote # lastSha

\* the toPull filter predicate of sync
inToPull(status, local, remote, lastSha, dir) ==
    IF status = "conflict" THEN FALSE
    ELSE IF dir = "push" THEN FALSE
    ELSE IF remote = NoEntry /\ local # NoEntry THEN FALSE
    ELSE IF remote # NoEntry /\ local = NoEntry THEN TRUE
    ELSE lastSha # NoEntry /\ remote # NoEntry /\ remote # lastSha

\* inToPush without the direction test
inToPush_NoDirectionTest(status, local, remote, lastHash, dir) ==
    IF status = "conflict" THEN FALSE
    ELSE IF local = NoEntry /\ remote # NoEntry THEN FALSE
    ELSE IF local # NoEntry /\ remote = NoEntry THEN TRUE
    ELSE lastHash # NoEntry /\ local # NoEntry /\ local # lastHash

\* inToPush with the two one-sided cases exchanged
inToPush_OneSidedExchanged(status, local, remote, lastHash, dir) ==
    IF status = "conflict" THEN FALSE
    ELSE IF dir = "pull" THEN FALSE
    ELSE IF local = NoEntry /\ remote # NoEntry THEN TRUE
    ELSE IF local # NoEntry /\ remote = NoEntry THEN FALSE
    ELSE lastHash # NoEntry /\ local # NoEntry /\ local # lastHash

\* the toPush filter predicate of sync
inToPush(status, local, remote, lastHash, dir) ==
    IF status = "conflict" THEN FALSE
    ELSE IF dir = "pull" THEN FALSE
    ELSE IF local = NoEntry /\ remote # NoEntry THEN FALSE
    ELSE IF local # NoEntry /\ remote = NoEntry THEN TRUE
    ELSE lastHash # NoEntry /\ local # NoEntry /\ local # lastHash

\* ------------------------------------------------------------------- state

VARIABLES
    vault,          \* local files: path -> content or Absent
    remoteTree,     \* files of the branch head: path -> content or Absent
    syncState,      \* plugin.syncState, the persisted baseline
    prevRun,        \* the sync that produced syncState, while nothing changed since
    pc,             \* position inside SyncService.sync / performSync
    direction,      \* options.direction || 'sync'
    optPaths,       \* options.paths ({} = none)
    lastSyncState,  \* the baseline passed to sync
    localIndex,     \* index built at the start of sync
    remoteIndex,
    changes,        \* filtered result of compareIndexes
    toPull,
    toPush,
    rerun,          \* "no" | "dirty" | "clean": this sync repeats prevRun
    result,         \* SyncResult under construction
    pullResults,    \* the FileSyncResult list pullChanges returned
    newState        \* baseline returned by sync

\* createBatchCommit against a branch another writer pushes to
VARIABLES
    commits,          \* commit objects of the repository: id -> parents, tree, author
    head,             \* the commit refs/heads/<branch> points to
    bpc,              \* position inside createBatchCommit
    batchChanges,     \* the changes argument
    maxRetries,
    attempt,
    currentCommitSha,
    baseTreeSha,
    treeItems,
    newTreeSha,
    newCommitSha,
    ret,              \* the value createBatchCommit returned
    caught,           \* "none" | "other" | "notFF": the error in its catch block
    thrown,           \* "none" | "other" | "notFF" | "exhausted": the error it raised
    headsRead,        \* the head each getRef of the call returned, in order
    refUpdates        \* updateRef calls of the call the server accepted

\* performSync and its triggers
VARIABLES
    isSyncing,        \* plugin.isSyncing
    ready,            \* authenticated and a repository selected
    callPc,           \* per trigger, the position of its performSync call
    lastReturn,       \* per trigger, what its last performSync call returned
    baseline,         \* version of plugin.syncState
    syncArg,          \* per trigger, the baseline its call passed to sync
    calls,            \* performSync calls started
    syncCalls         \* syncService.sync calls made

\* matchesIgnorePattern
VARIABLES
    globPath,         \* the path argument
    globPatterns,     \* the patterns argument
    globResult,       \* what the call returned
    globCalled        \* a call was made

\* the ignore settings and the indexes built under them
VARIABLES
    settingsPatterns,   \* settings.ignorePatterns, as edited in the settings tab:
                        \* the positions of its patterns in PatternList
    syncConfiguration,  \* settings.syncConfiguration
    indexedLocal,       \* keys of the index buildLocalIndex returned
    indexedRemote,      \* keys of the index buildRemoteIndex returned
    ipc                 \* "idle" | "configured" | "built"

\* computeDiff
VARIABLES
    oldContent,       \* the arguments
    newContent,
    diffResult,       \* the DiffResult returned
    diffCalled        \* a call was made

\* computeGitBlobSha
VARIABLES
    shaContent,       \* the content argument
    shaResult,        \* the digest returned
    shaCalled         \* a call was made

\* pullFile into a vault with folders
VARIABLES
    folders,          \* the folders of the vault
    localFiles,       \* path of each file -> "old" | "new": its content
    pullPath,         \* the localPath argument of pullFile, <<>> before the call
    pullFileResult    \* the FileSyncResult pullFile returned

\* the plugin data file and the two functions that save to it
VARIABLES
    stored,           \* the data file: [settings, syncState], as versions
    settings,         \* version of plugin.settings
    pluginSyncState,  \* version of plugin.syncState
    settingsPc,       \* saveSettings: "idle" | "load" | "save"
    settingsData,     \* the data its loadData returned
    statePc,          \* saveSyncState: "idle" | "load" | "save"
    stateData         \* the data its loadData returned

\* a sync and the configure calls of the settings tab
VARIABLES
    serviceIgnorePatterns, \* SyncService.ignorePatterns, as the name of the list
    serviceSubfolderPath,  \* SyncService.subfolderPath
    startConfiguration,    \* the two fields as they were when sync was called
    startIndex,            \* paths of localIndex, built before the apply
    pushedPaths,           \* remote paths of the push batch
    endIndex,              \* paths of newLocalIndex, built after the apply
    cpc                    \* "idle" | "apply" | "rebuild" | "done"

\* sync called with its options, dryRun included
VARIABLES
    dryVault,         \* path -> content of the local file, Absent when none
    dryTree,          \* path -> content of the file on the branch
    syncOptions,      \* the options of the sync call: [direction, dryRun]
    dpc               \* "idle" | "returned"

\* the subfolder mapping of paths
VARIABLES
    subfolderPath,    \* SyncService.subfolderPath, as typed in the settings
    localPath,        \* a path of the vault
    remotePath,       \* toRemotePath(localPath)
    backPath,         \* toLocalPath(remotePath)
    ppc               \* "idle" | "configured" | "remote" | "back"

syncVars == <<vault, remoteTree, syncState, prevRun, pc, direction, optPaths,
              lastSyncState, localIndex, remoteIndex, changes, toPull, toPush,
              rerun, result, pullResults, newState>>

batchLocals == <<batchChanges, maxRetries, attempt, currentCommitSha, baseTreeSha,
                 treeItems, newTreeSha, newCommitSha, ret, caught, thrown,
                 headsRead, refUpdates>>

batchVars == <<commits, head, bpc, batchLocals>>

pluginVars == <<isSyncing, ready, callPc, lastReturn, baseline, syncArg, calls,
                syncCalls>>

pathVars == <<subfolderPath, localPath, remotePath, backPath, ppc>>

globVars == <<globPath, globPatterns, globResult, globCalled>>

storeVars == <<stored, settings, pluginSyncState, settingsPc, settingsData,
               statePc, stateData>>

pullVars == <<folders, localFiles, pullPath, pullFileResult>>

shaVars == <<shaContent, shaResult, shaCalled>>

diffVars == <<oldContent, newContent, diffResult, diffCalled>>

ignoreVars == <<settingsPatterns, syncConfiguration, indexedLocal, indexedRemote, ipc>>

configVars == <<serviceIgnorePatterns, serviceSubfolderPath, startConfiguration,
                startIndex, pushedPaths, endIndex, cpc>>

dryVars == <<dryVault, dryTree, syncOptions, dpc>>

\* FRAMES-BEGIN
vars == <<syncVars, batchVars, pluginVars, pathVars, globVars, ignoreVars, diffVars, shaVars, pullVars, storeVars, configVars, dryVars>>

\* what the actions of one part leave alone: the variables of the others
notSyncVars ==
    <<batchVars, pluginVars, pathVars, globVars, ignoreVars, diffVars, shaVars, pullVars, storeVars, configVars, dryVars>>
notBatchVars ==
    <<syncVars, pluginVars, pathVars, globVars, ignoreVars, diffVars, shaVars, pullVars, storeVars, configVars, dryVars>>
notPluginVars ==
    <<syncVars, batchVars, pathVars, globVars, ignoreVars, diffVars, shaVars, pullVars, storeVars, configVars, dryVars>>
notPathVars ==
    <<syncVars, batchVars, pluginVars, globVars, ignoreVars, diffVars, shaVars, pullVars, storeVars, configVars, dryVars>>
notGlobVars ==
    <<syncVars, batchVars, pluginVars, pathVars, ignoreVars, diffVars, shaVars, pullVars, storeVars, configVars, dryVars>>
notIgnoreVars ==
    <<syncVars, batchVars, pluginVars, pathVars, globVars, diffVars, shaVars, pullVars, storeVars, configVars, dryVars>>
notDiffVars ==
    <<syncVars, batchVars, pluginVars, pathVars, globVars, ignoreVars, shaVars, pullVars, storeVars, configVars, dryVars>>
notShaVars ==
    <<syncVars, batchVars, pluginVars, pathVars, globVars, ignoreVars, diffVars, pullVars, storeVars, configVars, dryVars>>
notPullVars ==
    <<syncVars, batchVars, pluginVars, pathVars, globVars, ignoreVars, diffVars, shaVars, storeVars, configVars, dryVars>>
notStoreVars ==
    <<syncVars, batchVars, pluginVars, pathVars, globVars, ignoreVars, diffVars, shaVars, pullVars, configVars, dryVars>>
notConfigVars ==
    <<syncVars, batchVars, pluginVars, pathVars, globVars, ignoreVars, diffVars, shaVars, pullVars, storeVars, dryVars>>
notDryVars ==
    <<syncVars, batchVars, pluginVars, pathVars, globVars, ignoreVars, diffVars, shaVars, pullVars, storeVars, configVars>>
\* FRAMES-END

syncLocals == <<direction, optPaths, lastSyncState, localIndex, remoteIndex,
                changes, toPull, toPush, rerun, result, pullResults, newState>>

EmptyIndex == [p \in Files |-> NoEntry]

EmptyResult ==
    [success |-> TRUE, filesProcessed |-> 0, filesPulled |-> 0,
     filesPushed |-> 0, filesDeleted |-> 0, conflicts |-> {},
     errors |-> {}, commitSha |-> "none"]

InitSync ==
    /\ vault = [p \in Files |-> IF p \in IgnoredPaths THEN 1 ELSE Absent]
    /\ remoteTree = [p \in Files |-> Absent]
    /\ syncState = NoState
    /\ prevRun = NoRun
    /\ pc = "idle"
    /\ direction = "sync"
    /\ optPaths = {}
    /\ lastSyncState = NoState
    /\ localIndex = EmptyIndex
    /\ remoteIndex = EmptyIndex
    /\ changes = [p \in Files |-> "none"]
    /\ toPull = {}
    /\ toPush = {}
    /\ rerun = "no"
    /\ result = EmptyResult
    /\ pullResults = <<>>
    /\ newState = NoState

\* ------------------------------------------------- changes outside the sync

\* the user creates, edits or deletes a file of the vault
LocalEdit(p, c) ==
    /\ pc = "idle"
    /\ vault[p] # c
    /\ vault' = [vault EXCEPT ![p] = c]
    /\ prevRun' = NoRun
    /\ UNCHANGED <<remoteTree, syncState, pc, syncLocals>>
    /\ UNCHANGED notSyncVars

\* another writer commits a new, changed or removed file to the branch
RemoteEdit(p, c) ==
    /\ pc = "idle"
    /\ remoteTree[p] # c
    /\ remoteTree' = [remoteTree EXCEPT ![p] = c]
    /\ prevRun' = NoRun
    /\ UNCHANGED <<vault, syncState, pc, syncLocals>>
    /\ UNCHANGED notSyncVars

\* --------------------------------------------------------------- the sync

\* sync, up to the first apply step: both indexes are built and compared,
\* the changes filtered by options.paths and partitioned, result initialised.
\* performSync passes plugin.syncState as the baseline.
SyncStart(dir, paths) ==
    /\ pc = "idle"
    /\ LET li == buildLocalIndex(vault)
           ri == buildRemoteIndex(remoteTree)
           ch == filterChanges(compareIndexes(li, ri, syncState), paths)
       IN  /\ localIndex' = li
           /\ remoteIndex' = ri
           /\ changes' = ch
           /\ toPull' = {p \in Files : /\ ch[p] # "none"
                                       /\ inToPull(ch[p], li[p], ri[p],
                                                   lastShaOf(syncState, p), dir)}
           /\ toPush' = {p \in Files : /\ ch[p] # "none"
                                       /\ inToPush(ch[p], li[p], ri[p],
                                                   lastHashOf(syncState, p), dir)}
           /\ result' = [EmptyResult EXCEPT
                            !.conflicts = {p \in Files : ch[p] = "conflict"}]
    /\ direction' = dir
    /\ optPaths' = paths
    /\ lastSyncState' = syncState
    /\ rerun' = IF prevRun.direction = dir /\ prevRun.paths = paths
                THEN (IF prevRun.clean THEN "clean" ELSE "dirty")
                ELSE "no"
    /\ pc' = "pull"
    /\ pullResults' = <<>>
    /\ UNCHANGED <<vault, remoteTree, syncState, prevRun, newState>>
    /\ UNCHANGED notSyncVars

\* the order in which vault.getFiles() and the branch tree list the files
FileOrder == <<".obsidian/workspace.json", "a.md", "b.md">>

\* the order of the list compareIndexes returns: the keys of the local index,
\* then the keys the remote index adds
changeOrder(li, ri) ==
    LET isLocal(p) == li[p] # NoEntry
        isRemoteOnly(p) == li[p] = NoEntry /\ ri[p] # NoEntry
    IN  SelectSeq(FileOrder, isLocal) \o SelectSeq(FileOrder, isRemoteOnly)

\* paths of the pull set on which pullChanges acts
pullActs(ch, ri, set) ==
    {p \in set : /\ ch[p] \notin {"unchanged", "conflict"}
                 /\ (ri[p] # NoEntry \/ ch[p] = "deleted")}

\* the per-file results of pullChanges, one for every path it acts on, in the
\* order of the list of changes
pullResultsOf(order, acts, fetched, failures) ==
    LET inActs(p) == p \in acts
        paths == SelectSeq(order, inActs)
    IN  [i \in 1..Len(paths) |->
           [path |-> paths[i],
            action |-> IF paths[i] \in fetched THEN "pulled" ELSE "deleted-local",
            success |-> paths[i] \notin failures]]

\* pullChanges that leaves its loop at the first file that fails
pullChanges_StopsAtFailure(v, t, ch, order, ri, set, failed) ==
    LET acts == pullActs(ch, ri, set)
        fetched == {p \in acts : ri[p] # NoEntry}
        ok(p) == p \notin failed /\ (p \in fetched => t[toRemotePath(p)] # Absent)
        inActs(p) == p \in acts
        paths == SelectSeq(order, inActs)
        stop == IF \E i \in 1..Len(paths) : ~ok(paths[i])
                THEN CHOOSE i \in 1..Len(paths) :
                        ~ok(paths[i]) /\ \A j \in 1..(i - 1) : ok(paths[j])
                ELSE Len(paths)
        done == {paths[i] : i \in 1..stop}
    IN  [vault |-> [p \in Files |->
                      IF p \in done /\ ok(p)
                      THEN (IF p \in fetched
                            THEN decodeBase64(encodeBase64(t[toRemotePath(p)]))
                            ELSE Absent)
                      ELSE v[p]],
         pulled |-> {p \in fetched \cap done : ok(p)},
         deletedLocal |-> {p \in (acts \ fetched) \cap done : ok(p)},
         failures |-> {p \in done : ~ok(p)},
         results |-> pullResultsOf(order, done, fetched, {p \in done : ~ok(p)})]

\* pullChanges over the pull set, whose paths come in the given order; the
\* transport or the vault fails on the paths of failed.  Yields the new vault
\* and the per-file results.
pullChanges(v, t, ch, order, ri, set, failed) ==
    LET acts == pullActs(ch, ri, set)
        fetched == {p \in acts : ri[p] # NoEntry}
        ok(p) == p \notin failed /\ (p \in fetched => t[toRemotePath(p)] # Absent)
    IN  [vault |-> [p \in Files |->
                      IF p \in acts /\ ok(p)
                      THEN (IF p \in fetched
                            THEN decodeBase64(encodeBase64(t[toRemotePath(p)]))
                            ELSE Absent)
                      ELSE v[p]],
         pulled |-> {p \in fetched : ok(p)},
         deletedLocal |-> {p \in acts \ fetched : ok(p)},
         failures |-> {p \in acts : ~ok(p)},
         results |-> pullResultsOf(order, acts, fetched, {p \in acts : ~ok(p)})]

\* "Execute pull" of sync
PullStep(failed) ==
    /\ pc = "pull"
    /\ IF toPull # {} /\ direction # "push"
       THEN /\ failed \subseteq pullActs(changes, remoteIndex, toPull)
            /\ LET r == pullChanges(vault, remoteTree, changes,
                                    changeOrder(localIndex, remoteIndex),
                                    remoteIndex, toPull, failed)
               IN  /\ vault' = r.vault
                   /\ pullResults' = r.results
                   /\ result' = [result EXCEPT
                         !.filesPulled = Cardinality(r.pulled),
                         !.filesDeleted = @ + Cardinality(r.deletedLocal),
                         !.errors = @ \cup {<<"pull", p>> : p \in r.failures}]
       ELSE /\ failed = {}
            /\ UNCHANGED <<vault, result, pullResults>>
    /\ pc' = "push"
    /\ UNCHANGED <<remoteTree, syncState, prevRun, direction, optPaths,
                   lastSyncState, localIndex, remoteIndex, changes, toPull,
                   toPush, rerun, newState>>
    /\ UNCHANGED notSyncVars

NoChange == [action |-> "none", content |-> NoEntry]

\* the batch pushChanges collects from the push set; reading the local file
\* fails on the paths of readFailed
buildBatch(v, ch, li, set, readFailed) ==
    [p \in Files |->
        IF p \notin set \/ ch[p] \in {"unchanged", "conflict"} THEN NoChange
        ELSE IF li[p] # NoEntry
        THEN (IF v[p] = Absent \/ p \in readFailed THEN NoChange
              ELSE [action |-> IF ch[p] = "added" THEN "create" ELSE "update",
                    content |-> encodeBase64(v[p])])
        ELSE IF ch[p] = "deleted"
        THEN [action |-> "delete", content |-> NoEntry]
        ELSE NoChange]

\* paths whose local file pushChanges tries to read
pushReads(v, ch, li, set) ==
    {p \in set : /\ ch[p] \notin {"unchanged", "conflict"}
                 /\ li[p] # NoEntry
                 /\ v[p] # Absent}

\* the tree of the commit createBatchCommit puts on the branch
applyBatch(t, batch) ==
    [q \in Files |->
        LET hit == {p \in Files : toRemotePath(p) = q /\ batch[p] # NoChange}
        IN  IF hit = {} THEN t[q]
            ELSE LET b == batch[CHOOSE p \in hit : TRUE]
                 IN  IF b.action = "delete" THEN Absent
                     ELSE decodeBase64(b.content)]

\* pushChanges without the early return on an empty batch
pushChanges_CommitsEmptyBatch(v, t, ch, li, set, readFailed, commitFails) ==
    LET batch == buildBatch(v, ch, li, set, readFailed)
        ops == {p \in Files : batch[p] # NoChange}
        errors == {<<"read", p>> : p \in readFailed \cap pushReads(v, ch, li, set)}
    IN  IF commitFails
        THEN [success |-> FALSE, filesPushed |-> 0, filesDeleted |-> 0,
              errors |-> errors \cup {<<"batch", "commit">>},
              commitSha |-> "none", tree |-> t]
        ELSE [success |-> TRUE,
              filesPushed |-> Cardinality({p \in ops : batch[p].action # "delete"}),
              filesDeleted |-> Cardinality({p \in ops : batch[p].action = "delete"}),
              errors |-> errors, commitSha |-> "head",
              tree |-> applyBatch(t, batch)]

\* pushChanges that reports failure whenever it collected an error
pushChanges_ReadErrorFails(v, t, ch, li, set, readFailed, commitFails) ==
    LET batch == buildBatch(v, ch, li, set, readFailed)
        ops == {p \in Files : batch[p] # NoChange}
        errors == {<<"read", p>> : p \in readFailed \cap pushReads(v, ch, li, set)}
    IN  IF ops = {}
        THEN [success |-> errors = {}, filesPushed |-> 0, filesDeleted |-> 0,
              errors |-> errors, commitSha |-> "none", tree |-> t]
        ELSE IF commitFails
        THEN [success |-> FALSE, filesPushed |-> 0, filesDeleted |-> 0,
              errors |-> errors \cup {<<"batch", "commit">>},
              commitSha |-> "none", tree |-> t]
        ELSE [success |-> errors = {},
              filesPushed |-> Cardinality({p \in ops : batch[p].action # "delete"}),
              filesDeleted |-> Cardinality({p \in ops : batch[p].action = "delete"}),
              errors |-> errors, commitSha |-> "head",
              tree |-> applyBatch(t, batch)]

\* pushChanges: the SyncResult it returns and the branch tree it leaves;
\* commitSha is "head" when createBatchCommit returned a commit id (the
\* head of the branch after it) and "none" when there is none
pushChanges(v, t, ch, li, set, readFailed, commitFails) ==
    LET batch == buildBatch(v, ch, li, set, readFailed)
        ops == {p \in Files : batch[p] # NoChange}
        errors == {<<"read", p>> : p \in readFailed \cap pushReads(v, ch, li, set)}
    IN  IF ops = {}
        THEN [success |-> TRUE, filesPushed |-> 0, filesDeleted |-> 0,
              errors |-> errors, commitSha |-> "none", tree |-> t]
        ELSE IF commitFails
        THEN [success |-> FALSE, filesPushed |-> 0, filesDeleted |-> 0,
              errors |-> errors \cup {<<"batch", "commit">>},
              commitSha |-> "none", tree |-> t]
        ELSE [success |-> TRUE,
              filesPushed |-> Cardinality({p \in ops : batch[p].action # "delete"}),
              filesDeleted |-> Cardinality({p \in ops : batch[p].action = "delete"}),
              errors |-> errors, commitSha |-> "head",
              tree |-> applyBatch(t, batch)]

\* "Execute push" of sync, then the filesProcessed total
PushStep(readFailed, commitFails) ==
    /\ pc = "push"
    /\ IF toPush # {} /\ direction # "pull"
       THEN /\ readFailed \subseteq pushReads(vault, changes, localIndex, toPush)
            /\ commitFails =>
                 \E p \in Files :
                    buildBatch(vault, changes, localIndex, toPush, readFailed)[p]
                       # NoChange
            /\ LET r == pushChanges(vault, remoteTree, changes, localIndex,
                                    toPush, readFailed, commitFails)
               IN  /\ remoteTree' = r.tree
                   /\ result' = [result EXCEPT
                         !.filesPushed = r.filesPushed,
                         !.filesDeleted = @ + r.filesDeleted,
                         !.errors = @ \cup r.errors,
                         !.commitSha = r.commitSha,
                         !.success = IF r.success THEN @ ELSE FALSE,
                         !.filesProcessed = result.filesPulled + r.filesPushed
                                            + result.filesDeleted + r.filesDeleted]
       ELSE /\ readFailed = {}
            /\ commitFails = FALSE
            /\ remoteTree' = remoteTree
            /\ result' = [result EXCEPT
                  !.filesProcessed = result.filesPulled + result.filesPushed
                                     + result.filesDeleted]
    /\ pc' = "rebuild"
    /\ UNCHANGED <<vault, syncState, prevRun, direction, optPaths,
                   lastSyncState, localIndex, remoteIndex, changes, toPull,
                   toPush, rerun, pullResults, newState>>
    /\ UNCHANGED notSyncVars

\* the baseline sync builds from two indexes (the hash maps; lastSyncTime
\* and lastCommitSha take no part in the comparison)
buildNewState(li, ri) ==
    [present |-> TRUE, fileHashes |-> li, fileShas |-> ri]

\* Rebuild that reuses the indexes built before the apply steps
Rebuild_FromStartIndexes ==
    /\ pc = "rebuild"
    /\ newState' = buildNewState(localIndex, remoteIndex)
    /\ pc' = "done"
    /\ UNCHANGED <<vault, remoteTree, syncState, prevRun, direction, optPaths,
                   lastSyncState, localIndex, remoteIndex, changes, toPull,
                   toPush, rerun, result, pullResults>>
    /\ UNCHANGED notSyncVars

\* Rebuild that also computes the new state while the push is still to run
Rebuild_BeforePush ==
    /\ pc \in {"push", "rebuild"}
    /\ newState' = buildNewState(buildLocalIndex(vault), buildRemoteIndex(remoteTree))
    /\ pc' = IF pc = "push" THEN "push" ELSE "done"
    /\ UNCHANGED <<vault, remoteTree, syncState, prevRun, direction, optPaths,
                   lastSyncState, localIndex, remoteIndex, changes, toPull,
                   toPush, rerun, result, pullResults>>
    /\ UNCHANGED notSyncVars

\* "Build new sync state": both indexes are rebuilt and sync returns
Rebuild ==
    /\ pc = "rebuild"
    /\ newState' = buildNewState(buildLocalIndex(vault), buildRemoteIndex(remoteTree))
    /\ pc' = "done"
    /\ UNCHANGED <<vault, remoteTree, syncState, prevRun, direction, optPaths,
                   lastSyncState, localIndex, remoteIndex, changes, toPull,
                   toPush, rerun, result, pullResults>>
    /\ UNCHANGED notSyncVars

\* Persist that leaves plugin.syncState as it was
Persist_KeepsOldState ==
    /\ pc = "done"
    /\ syncState' = syncState
    /\ prevRun' = [direction |-> direction, paths |-> optPaths,
                   clean |-> result.success /\ result.errors = {}]
    /\ pc' = "idle"
    /\ direction' = "sync"
    /\ optPaths' = {}
    /\ lastSyncState' = NoState
    /\ localIndex' = EmptyIndex
    /\ remoteIndex' = EmptyIndex
    /\ changes' = [p \in Files |-> "none"]
    /\ toPull' = {}
    /\ toPush' = {}
    /\ rerun' = "no"
    /\ result' = EmptyResult
    /\ pullResults' = <<>>
    /\ newState' = NoState
    /\ UNCHANGED <<vault, remoteTree>>
    /\ UNCHANGED notSyncVars

\* performSync after sync returned: the new baseline replaces plugin.syncState
\* and is saved, whatever result.success is
Persist ==
    /\ pc = "done"
    /\ syncState' = newState
    /\ prevRun' = [direction |-> direction, paths |-> optPaths,
                   clean |-> result.success /\ result.errors = {}]
    /\ pc' = "idle"
    /\ direction' = "sync"
    /\ optPaths' = {}
    /\ lastSyncState' = NoState
    /\ localIndex' = EmptyIndex
    /\ remoteIndex' = EmptyIndex
    /\ changes' = [p \in Files |-> "none"]
    /\ toPull' = {}
    /\ toPush' = {}
    /\ rerun' = "no"
    /\ result' = EmptyResult
    /\ pullResults' = <<>>
    /\ newState' = NoState
    /\ UNCHANGED <<vault, remoteTree>>
    /\ UNCHANGED notSyncVars

\* sync when the transport fails while buildRemoteIndex lists the branch tree:
\* the local index is built, buildRemoteIndex rethrows and sync raises
SyncStartFails(dir, paths) ==
    /\ pc = "idle"
    /\ direction' = dir
    /\ optPaths' = paths
    /\ lastSyncState' = syncState
    /\ localIndex' = buildLocalIndex(vault)
    /\ pc' = "raised"
    /\ UNCHANGED <<vault, remoteTree, syncState, prevRun, remoteIndex, changes,
                   toPull, toPush, rerun, result, pullResults, newState>>
    /\ UNCHANGED notSyncVars

\* "Build new sync state" when the transport fails in the second
\* buildRemoteIndex: sync raises after its apply steps
RebuildFails ==
    /\ pc = "rebuild"
    /\ pc' = "raised"
    /\ UNCHANGED <<vault, remoteTree, syncState, prevRun, direction, optPaths,
                   lastSyncState, localIndex, remoteIndex, changes, toPull,
                   toPush, rerun, result, pullResults, newState>>
    /\ UNCHANGED notSyncVars

\* the catch block of performSync that puts the state of the failed sync
\* in plugin.syncState
Catch_StoresState ==
    /\ pc = "raised"
    /\ syncState' = newState
    /\ prevRun' = NoRun
    /\ pc' = "idle"
    /\ direction' = "sync"
    /\ optPaths' = {}
    /\ lastSyncState' = NoState
    /\ localIndex' = EmptyIndex
    /\ remoteIndex' = EmptyIndex
    /\ changes' = [p \in Files |-> "none"]
    /\ toPull' = {}
    /\ toPush' = {}
    /\ rerun' = "no"
    /\ result' = EmptyResult
    /\ pullResults' = <<>>
    /\ newState' = NoState
    /\ UNCHANGED <<vault, remoteTree>>
    /\ UNCHANGED notSyncVars

\* performSync after sync raised: the error is reported and null returned;
\* plugin.syncState is neither assigned nor saved
Catch ==
    /\ pc = "raised"
    /\ prevRun' = NoRun
    /\ pc' = "idle"
    /\ direction' = "sync"
    /\ optPaths' = {}
    /\ lastSyncState' = NoState
    /\ localIndex' = EmptyIndex
    /\ remoteIndex' = EmptyIndex
    /\ changes' = [p \in Files |-> "none"]
    /\ toPull' = {}
    /\ toPush' = {}
    /\ rerun' = "no"
    /\ result' = EmptyResult
    /\ pullResults' = <<>>
    /\ newState' = NoState
    /\ UNCHANGED <<vault, remoteTree, syncState>>
    /\ UNCHANGED notSyncVars

\* ------------------------------------------------------ createBatchCommit

\* commits another writer pushes to the branch
MaxOtherCommits == 3

\* largest options.retryCount a caller passes
MaxRetryCount == 2

\* maxRetries when options.retryCount is undefined
DefaultRetryCount == 3

\* options?.retryCount: <<>> when undefined, else <<n>>
RetryCounts == {<<>>} \cup {<<n>> : n \in 0..MaxRetryCount}

\* a tree of the repository: path -> blob id, NoEntry where there is no file.
\* Objects are content-addressed: a tree id stands for the tree itself, a
\* blob id for the content
Trees == [Paths -> {blobSha(c) : c \in Contents} \cup {NoEntry}]

\* BatchFileChange: create and update are treated alike by createBatchCommit
BatchFileChanges ==
    {[path |-> p, action |-> "update", content |-> encodeBase64(c)] :
        p \in Paths, c \in Contents}
    \cup {[path |-> p, action |-> "delete", content |-> NoEntry] : p \in Paths}

\* the non-empty batches pushChanges can pass: at most one change per path
Batches ==
    {<<x>> : x \in BatchFileChanges}
    \cup {<<x, y>> : x \in {z \in BatchFileChanges : z.path = "a.md"},
                     y \in {z \in BatchFileChanges : z.path = "b.md"}}

RootCommit == [parents |-> <<>>, tree |-> [p \in Paths |-> NoEntry], author |-> "root"]

\* the commits reachable from commit id through parents, id included
RECURSIVE Ancestors(_, _)
Ancestors(cs, id) ==
    {id} \cup UNION {Ancestors(cs, cs[id].parents[k]) : k \in 1..Len(cs[id].parents)}

\* the git server's answer to updateRef: a non-forced update is accepted only
\* when the ref's commit is an ancestor of the new one
updateRefAccepted(cs, ref, sha, force) == force \/ ref \in Ancestors(cs, sha)

\* the tree createTree builds from base_tree and the tree items
createTree(baseTree, items) ==
    [p \in Paths |->
        IF \E i \in 1..Len(items) : items[i].path = p
        THEN items[CHOOSE i \in 1..Len(items) : items[i].path = p].sha
        ELSE baseTree[p]]

NoReturn == [commitSha |-> 0, treeSha |-> [p \in Paths |-> NoEntry]]

InitBatch ==
    /\ commits = <<RootCommit>>
    /\ head = 1
    /\ bpc = "idle"
    /\ batchChanges = <<>>
    /\ maxRetries = 0
    /\ attempt = 0
    /\ currentCommitSha = 0
    /\ baseTreeSha = RootCommit.tree
    /\ treeItems = <<>>
    /\ newTreeSha = RootCommit.tree
    /\ newCommitSha = 0
    /\ ret = NoReturn
    /\ caught = "none"
    /\ thrown = "none"
    /\ headsRead = <<>>
    /\ refUpdates = 0

\* another writer pushes a commit on top of the head: it adds the file p
\* where the head has none, and removes it where the head has it
OtherPush(p) ==
    /\ Cardinality({i \in 1..Len(commits) : commits[i].author = "other"})
          < MaxOtherCommits
    /\ commits' = Append(commits,
                         [parents |-> <<head>>,
                          tree |-> [commits[head].tree EXCEPT ![p] =
                                      IF @ = NoEntry THEN blobSha(1) ELSE NoEntry],
                          author |-> "other"])
    /\ head' = Len(commits) + 1
    /\ UNCHANGED <<bpc, batchLocals>>
    /\ UNCHANGED notBatchVars

\* createBatchCommit is called; the for loop tests attempt < maxRetries
CreateBatchCommit(chs, retryCount) ==
    /\ bpc = "idle"
    /\ batchChanges' = chs
    /\ LET max == IF retryCount = <<>> THEN DefaultRetryCount ELSE retryCount[1]
       IN  /\ maxRetries' = max
           /\ IF 0 < max
              THEN bpc' = "getRef" /\ thrown' = thrown
              ELSE bpc' = "raised" /\ thrown' = "exhausted"
    /\ attempt' = 0
    /\ UNCHANGED <<commits, head, currentCommitSha, baseTreeSha, treeItems,
                   newTreeSha, newCommitSha, ret, caught, headsRead, refUpdates>>
    /\ UNCHANGED notBatchVars

\* git.getRef: the current commit of the branch, read on each attempt
GetRef ==
    /\ bpc = "getRef"
    /\ currentCommitSha' = head
    /\ headsRead' = Append(headsRead, head)
    /\ bpc' = "getCommit"
    /\ UNCHANGED <<commits, head, batchChanges, maxRetries, attempt, baseTreeSha,
                   treeItems, newTreeSha, newCommitSha, ret, caught, thrown,
                   refUpdates>>
    /\ UNCHANGED notBatchVars

\* git.getCommit: the tree of that commit
GetCommit ==
    /\ bpc = "getCommit"
    /\ baseTreeSha' = commits[currentCommitSha].tree
    /\ treeItems' = <<>>
    /\ bpc' = "createBlob"
    /\ UNCHANGED <<commits, head, batchChanges, maxRetries, attempt,
                   currentCommitSha, newTreeSha, newCommitSha, ret, caught,
                   thrown, headsRead, refUpdates>>
    /\ UNCHANGED notBatchVars

\* one turn of the loop over the changes: a deletion gives a tree item with
\* sha null, any other change a git.createBlob call and an item with its id
CreateBlob ==
    /\ bpc = "createBlob"
    /\ LET change == batchChanges[Len(treeItems) + 1]
           item == [path |-> change.path,
                    sha |-> IF change.action = "delete" THEN NoEntry
                            ELSE blobSha(decodeBase64(change.content))]
       IN  treeItems' = Append(treeItems, item)
    /\ bpc' = IF Len(treeItems) + 1 = Len(batchChanges)
              THEN "createTree" ELSE "createBlob"
    /\ UNCHANGED <<commits, head, batchChanges, maxRetries, attempt,
                   currentCommitSha, baseTreeSha, newTreeSha, newCommitSha, ret,
                   caught, thrown, headsRead, refUpdates>>
    /\ UNCHANGED notBatchVars

\* CreateTree without the comparison of the new tree with the base tree
CreateTree_AlwaysCommits ==
    /\ bpc = "createTree"
    /\ newTreeSha' = createTree(baseTreeSha, treeItems)
    /\ bpc' = "createCommit"
    /\ UNCHANGED <<commits, head, batchChanges, maxRetries, attempt,
                   currentCommitSha, baseTreeSha, treeItems, newCommitSha, ret,
                   caught, thrown, headsRead, refUpdates>>
    /\ UNCHANGED notBatchVars

\* git.createTree, then the early return when the new tree is the base tree
CreateTree ==
    /\ bpc = "createTree"
    /\ newTreeSha' = createTree(baseTreeSha, treeItems)
    /\ IF createTree(baseTreeSha, treeItems) = baseTreeSha
       THEN /\ ret' = [commitSha |-> currentCommitSha, treeSha |-> baseTreeSha]
            /\ bpc' = "returned"
       ELSE /\ ret' = ret
            /\ bpc' = "createCommit"
    /\ UNCHANGED <<commits, head, batchChanges, maxRetries, attempt,
                   currentCommitSha, baseTreeSha, treeItems, newCommitSha,
                   caught, thrown, headsRead, refUpdates>>
    /\ UNCHANGED notBatchVars

\* git.createCommit with parents: [currentCommitSha]
CreateCommit ==
    /\ bpc = "createCommit"
    /\ commits' = Append(commits, [parents |-> <<currentCommitSha>>,
                                   tree |-> newTreeSha, author |-> "plugin"])
    /\ newCommitSha' = Len(commits) + 1
    /\ bpc' = "updateRef"
    /\ UNCHANGED <<head, batchChanges, maxRetries, attempt, currentCommitSha,
                   baseTreeSha, treeItems, newTreeSha, ret, caught, thrown,
                   headsRead, refUpdates>>
    /\ UNCHANGED notBatchVars

\* UpdateRef sent with force: true
UpdateRef_Forced ==
    /\ bpc = "updateRef"
    /\ updateRefAccepted(commits, head, newCommitSha, TRUE)
    /\ head' = newCommitSha
    /\ refUpdates' = refUpdates + 1
    /\ ret' = [commitSha |-> newCommitSha, treeSha |-> newTreeSha]
    /\ bpc' = "returned"
    /\ UNCHANGED <<commits, batchChanges, maxRetries, attempt, currentCommitSha,
                   baseTreeSha, treeItems, newTreeSha, newCommitSha, caught,
                   thrown, headsRead>>
    /\ UNCHANGED notBatchVars

\* git.updateRef with force: false, accepted by the server
UpdateRef ==
    /\ bpc = "updateRef"
    /\ updateRefAccepted(commits, head, newCommitSha, FALSE)
    /\ head' = newCommitSha
    /\ refUpdates' = refUpdates + 1
    /\ ret' = [commitSha |-> newCommitSha, treeSha |-> newTreeSha]
    /\ bpc' = "returned"
    /\ UNCHANGED <<commits, batchChanges, maxRetries, attempt, currentCommitSha,
                   baseTreeSha, treeItems, newTreeSha, newCommitSha, caught,
                   thrown, headsRead>>
    /\ UNCHANGED notBatchVars

\* UpdateRefRejected that retries whatever attempt it is
UpdateRefRejected_AlwaysRetries ==
    /\ bpc = "updateRef"
    /\ ~updateRefAccepted(commits, head, newCommitSha, FALSE)
    /\ caught' = "notFF"
    /\ bpc' = "sleep"
    /\ UNCHANGED <<commits, head, batchChanges, maxRetries, attempt,
                   currentCommitSha, baseTreeSha, treeItems, newTreeSha,
                   newCommitSha, ret, thrown, headsRead, refUpdates>>
    /\ UNCHANGED notBatchVars

\* git.updateRef with force: false, rejected with 'Update is not a fast
\* forward': the catch block retries while attempt < maxRetries - 1 and
\* rethrows otherwise
UpdateRefRejected ==
    /\ bpc = "updateRef"
    /\ ~updateRefAccepted(commits, head, newCommitSha, FALSE)
    /\ caught' = "notFF"
    /\ IF attempt < maxRetries - 1
       THEN bpc' = "sleep" /\ thrown' = thrown
       ELSE bpc' = "raised" /\ thrown' = "notFF"
    /\ UNCHANGED <<commits, head, batchChanges, maxRetries, attempt,
                   currentCommitSha, baseTreeSha, treeItems, newTreeSha,
                   newCommitSha, ret, headsRead, refUpdates>>
    /\ UNCHANGED notBatchVars

\* the positions at which a call of the transport is awaited
AtRemoteCall ==
    \/ bpc \in {"getRef", "getCommit", "createTree", "createCommit", "updateRef"}
    \/ bpc = "createBlob" /\ batchChanges[Len(treeItems) + 1].action # "delete"

\* Fail that treats every error as the non-fast-forward one
Fail_Retried ==
    /\ AtRemoteCall
    /\ caught' = "other"
    /\ IF attempt < maxRetries - 1
       THEN bpc' = "sleep" /\ thrown' = thrown
       ELSE bpc' = "raised" /\ thrown' = "other"
    /\ UNCHANGED <<commits, head, batchChanges, maxRetries, attempt,
                   currentCommitSha, baseTreeSha, treeItems, newTreeSha,
                   newCommitSha, ret, headsRead, refUpdates>>
    /\ UNCHANGED notBatchVars

\* a call of the transport fails with an error other than the
\* non-fast-forward one: the catch block rethrows it
Fail ==
    /\ AtRemoteCall
    /\ caught' = "other"
    /\ thrown' = "other"
    /\ bpc' = "raised"
    /\ UNCHANGED <<commits, head, batchChanges, maxRetries, attempt,
                   currentCommitSha, baseTreeSha, treeItems, newTreeSha,
                   newCommitSha, ret, headsRead, refUpdates>>
    /\ UNCHANGED notBatchVars

\* after the backoff delay: continue, attempt++ and the loop test
Retry ==
    /\ bpc = "sleep"
    /\ attempt' = attempt + 1
    /\ caught' = "none"
    /\ IF attempt + 1 < maxRetries
       THEN bpc' = "getRef" /\ thrown' = thrown
       ELSE bpc' = "raised" /\ thrown' = "exhausted"
    /\ UNCHANGED <<commits, head, batchChanges, maxRetries, currentCommitSha,
                   baseTreeSha, treeItems, newTreeSha, newCommitSha, ret,
                   headsRead, refUpdates>>
    /\ UNCHANGED notBatchVars

\* ------------------------------------------------------------ performSync

\* performSync calls started
MaxCalls == 4

\* what calls performSync: the commands, the ribbon icon and its menu, the
\* interval timer, the debounced on-save timer, the startup timer and the
\* buttons of the sync panel
Triggers == {"command", "ribbon", "interval", "on-save", "startup", "panel"}

\* the triggers whose performSync call awaits sync or saveSyncState
InFlight == {t \in Triggers : callPc[t] # "idle"}

InitPlugin ==
    /\ isSyncing = FALSE
    /\ ready = TRUE
    /\ callPc = [t \in Triggers |-> "idle"]
    /\ lastReturn = [t \in Triggers |-> "none"]
    /\ baseline = 0
    /\ syncArg = [t \in Triggers |-> 0]
    /\ calls = 0
    /\ syncCalls = 0

\* the token or the repository is set or cleared in the settings
SetReady ==
    /\ ready' = ~ready
    /\ UNCHANGED <<isSyncing, callPc, lastReturn, baseline, syncArg, calls,
                   syncCalls>>
    /\ UNCHANGED notPluginVars

\* PerformSync without the isSyncing test
PerformSync_NoGuard(t) ==
    /\ calls < MaxCalls
    /\ callPc[t] = "idle"
    /\ calls' = calls + 1
    /\ IF ~ready
       THEN /\ lastReturn' = [lastReturn EXCEPT ![t] = "null: not configured"]
            /\ UNCHANGED <<isSyncing, callPc, baseline, syncArg, syncCalls>>
       ELSE /\ isSyncing' = TRUE
            /\ callPc' = [callPc EXCEPT ![t] = "sync"]
            /\ syncArg' = [syncArg EXCEPT ![t] = baseline]
            /\ syncCalls' = syncCalls + 1
            /\ UNCHANGED <<lastReturn, baseline>>
    /\ UNCHANGED ready
    /\ UNCHANGED notPluginVars

\* performSync from its first line to its first await: the three early
\* returns of null (with the notice shown), else isSyncing is set and
\* syncService.sync called with plugin.syncState
PerformSync(t) ==
    /\ calls < MaxCalls
    /\ callPc[t] = "idle" \/ isSyncing
    /\ calls' = calls + 1
    /\ IF isSyncing
       THEN /\ lastReturn' = [lastReturn EXCEPT ![t] = "null: in progress"]
            /\ UNCHANGED <<isSyncing, callPc, baseline, syncArg, syncCalls>>
       ELSE IF ~ready
       THEN /\ lastReturn' = [lastReturn EXCEPT ![t] = "null: not configured"]
            /\ UNCHANGED <<isSyncing, callPc, baseline, syncArg, syncCalls>>
       ELSE /\ isSyncing' = TRUE
            /\ callPc' = [callPc EXCEPT ![t] = "sync"]
            /\ syncArg' = [syncArg EXCEPT ![t] = baseline]
            /\ syncCalls' = syncCalls + 1
            /\ UNCHANGED <<lastReturn, baseline>>
    /\ UNCHANGED ready
    /\ UNCHANGED notPluginVars

\* sync returns: its newState, made from the baseline it was given, replaces
\* plugin.syncState and saveSyncState is awaited
SyncReturns(t) ==
    /\ callPc[t] = "sync"
    /\ baseline' = syncArg[t] + 1
    /\ callPc' = [callPc EXCEPT ![t] = "save"]
    /\ UNCHANGED <<isSyncing, ready, lastReturn, syncArg, calls, syncCalls>>
    /\ UNCHANGED notPluginVars

\* saveSyncState returns: the result is returned, finally clears isSyncing
SaveReturns(t) ==
    /\ callPc[t] = "save"
    /\ lastReturn' = [lastReturn EXCEPT ![t] = "result"]
    /\ isSyncing' = FALSE
    /\ callPc' = [callPc EXCEPT ![t] = "idle"]
    /\ UNCHANGED <<ready, baseline, syncArg, calls, syncCalls>>
    /\ UNCHANGED notPluginVars

\* SyncRaises with no finally block: the catch returns null, isSyncing stays
SyncRaises_NoFinally(t) ==
    /\ callPc[t] \in {"sync", "save"}
    /\ lastReturn' = [lastReturn EXCEPT ![t] = "null: error"]
    /\ callPc' = [callPc EXCEPT ![t] = "idle"]
    /\ UNCHANGED <<isSyncing, ready, baseline, syncArg, calls, syncCalls>>
    /\ UNCHANGED notPluginVars

\* sync or saveSyncState raises: catch returns null, finally clears isSyncing
SyncRaises(t) ==
    /\ callPc[t] \in {"sync", "save"}
    /\ lastReturn' = [lastReturn EXCEPT ![t] = "null: error"]
    /\ isSyncing' = FALSE
    /\ callPc' = [callPc EXCEPT ![t] = "idle"]
    /\ UNCHANGED <<ready, baseline, syncArg, calls, syncCalls>>
    /\ UNCHANGED notPluginVars

\* --------------------------------------------------------- subfolder mapping

\* longest subfolder setting, in characters
MaxSubLen == 3

\* longest vault path, in characters
MaxPathLen == 3

\* longest ignore pattern and longest path matched against it
MaxPatternLen == 3
MaxGlobPathLen == 3

\* most lines of a content given to computeDiff
MaxDiffLines == 3

\* most equal lines in front of the two contents compared
MaxPadLines == 4

\* most saveSettings calls and most saveSyncState calls
MaxSaves == 2

\* longest content given to computeGitBlobSha, in characters
MaxShaLen == 4

\* a path is the sequence of its characters
PathChars == {"a", "/"}

\* the subfolder setting is free text
SubfolderChars == {"a", "/", "\\"}

\* toRemotePath with the subfolder sub configured
toRemotePathIn(sub, p) ==
    IF sub # <<>> THEN normalizePath(sub \o <<"/">> \o p) ELSE p

\* toLocalPath with the subfolder sub configured
toLocalPathIn(sub, p) ==
    IF sub # <<>> /\ startsWith(p, sub \o <<"/">>)
    THEN SubSeq(p, Len(sub) + 2, Len(p))
    ELSE p

\* the values the subfolder setting can hold
SubfolderValues == UNION {[1..k -> SubfolderChars] : k \in 0..MaxSubLen}

\* the paths the vault gives its files: non-empty and normalised
VaultPaths ==
    {s \in UNION {[1..k -> PathChars] : k \in 1..MaxPathLen} : normalizePath(s) = s}

InitPaths ==
    /\ subfolderPath = <<>>
    /\ localPath = <<>>
    /\ remotePath = <<>>
    /\ backPath = <<>>
    /\ ppc = "idle"

\* configure(ignorePatterns, subfolderPath) with the text of the setting
Configure(sub) ==
    /\ ppc = "idle"
    /\ subfolderPath' = sub
    /\ ppc' = "configured"
    /\ UNCHANGED <<localPath, remotePath, backPath>>
    /\ UNCHANGED notPathVars

\* toRemotePath of a path of the vault
ToRemotePath(p) ==
    /\ ppc = "configured"
    /\ localPath' = p
    /\ remotePath' = toRemotePathIn(subfolderPath, p)
    /\ ppc' = "remote"
    /\ UNCHANGED <<subfolderPath, backPath>>
    /\ UNCHANGED notPathVars

\* toLocalPath of the remote path just computed
ToLocalPath ==
    /\ ppc = "remote"
    /\ backPath' = toLocalPathIn(subfolderPath, remotePath)
    /\ ppc' = "back"
    /\ UNCHANGED <<subfolderPath, localPath, remotePath>>
    /\ UNCHANGED notPathVars

\* the state after construction of the plugin and its services
\* ---------------------------------------------------- matchesIgnorePattern

RECURSIVE SeqsUpTo(_, _)
SeqsUpTo(chars, n) ==
    IF n = 0 THEN {<<>>}
    ELSE LET shorter == SeqsUpTo(chars, n - 1)
         IN  shorter \cup {<<c>> \o s : c \in chars, s \in {t \in shorter : Len(t) = n - 1}}

\* paths and patterns of a letter, the separator, a character the regular
\* expression escapes, and the wildcards
GlobPaths == SeqsUpTo({"a", ".", "/"}, MaxGlobPathLen)
Patterns == SeqsUpTo({"a", ".", "/", "*", "?"}, MaxPatternLen)

\* the pattern lists tried: none, one pattern, one pattern after a literal one
PatternLists ==
    {{}} \cup {{pattern} : pattern \in Patterns}
         \cup {{<<"a">>, pattern} : pattern \in Patterns}

InitGlob ==
    /\ globPath = <<>>
    /\ globPatterns = {}
    /\ globResult = FALSE
    /\ globCalled = FALSE

\* one call, on any path and pattern list
MatchesIgnorePattern ==
    /\ ~globCalled
    /\ \E path \in GlobPaths, patterns \in PatternLists :
            /\ globPath' = path
            /\ globPatterns' = patterns
            /\ globResult' = matchesIgnorePattern(path, patterns)
    /\ globCalled' = TRUE
    /\ UNCHANGED notGlobVars

\* ---------------------------------------------------------- ignore settings

\* vault.configDir
configDir == <<".", "o", "b", "s", "i", "d", "i", "a", "n">>

metadataFile == configDir \o <<"/", "g", "i", "t", "h", "u", "b", "-", "s", "y", "n", "c", "-", "m", "e", "t", "a", "d", "a", "t", "a", ".", "j", "s", "o", "n">>
pluginFile == configDir \o <<"/", "p", "l", "u", "g", "i", "n", "s", "/", "p", "/", "m", "a", "i", "n", ".", "j", "s">>
configFile == configDir \o <<"/", "a", "p", "p", ".", "j", "s", "o", "n">>
noteFile == <<"a", ".", "m", "d">>

\* the files of the vault and of the branch, the same on both sides
TreeFiles == {metadataFile, pluginFile, configFile, noteFile}

\* what the settings tab can leave in settings.ignorePatterns: the defaults,
\* less the patterns removed, plus patterns added
PatternPool ==
    ignorePatterns \cup {configDir \o <<"/", "*", "*">>, configDir \o <<"/", "p", "l", "u", "g", "i", "n", "s", "/", "*", "*">>}

\* the patterns of the pool in a fixed order: a pattern list is held as the
\* set of the positions of its patterns
PatternList ==
    LET RECURSIVE listed(_)
        listed(rest) ==
            IF rest = {} THEN <<>>
            ELSE LET pattern == CHOOSE x \in rest : TRUE
                 IN  <<pattern>> \o listed(rest \ {pattern})
    IN  listed(PatternPool)

positionsOf(patterns) == {i \in DOMAIN PatternList : PatternList[i] \in patterns}
patternsAt(positions) == {PatternList[i] : i \in positions}

InitIgnore ==
    /\ settingsPatterns = positionsOf(ignorePatterns)
    /\ syncConfiguration = FALSE
    /\ indexedLocal = {}
    /\ indexedRemote = {}
    /\ ipc = "idle"

\* the settings as the user left them, passed to the SyncService
ConfigureIgnore(patterns, flag) ==
    /\ ipc = "idle"
    /\ settingsPatterns' = positionsOf(patterns)
    /\ syncConfiguration' = flag
    /\ ipc' = "configured"
    /\ UNCHANGED <<indexedLocal, indexedRemote>>
    /\ UNCHANGED notIgnoreVars

\* buildLocalIndex and buildRemoteIndex with no subfolder: every file the
\* configured patterns do not match
BuildIndexes ==
    /\ ipc = "configured"
    /\ indexedLocal' =
            {path \in TreeFiles :
                ~matchesIgnorePattern(path, patternsAt(settingsPatterns))}
    /\ indexedRemote' =
            {path \in TreeFiles :
                ~matchesIgnorePattern(path, patternsAt(settingsPatterns))}
    /\ ipc' = "built"
    /\ UNCHANGED <<settingsPatterns, syncConfiguration>>
    /\ UNCHANGED notIgnoreVars

\* -------------------------------------------------------------- computeDiff

\* String.split('\n')
RECURSIVE splitLines(_)
splitLines(s) ==
    IF \A i \in 1..Len(s) : s[i] # "\n" THEN <<s>>
    ELSE LET k == CHOOSE i \in 1..Len(s) :
                    s[i] = "\n" /\ \A h \in 1..(i - 1) : s[h] # "\n"
         IN  <<SubSeq(s, 1, k - 1)>> \o splitLines(SubSeq(s, k + 1, Len(s)))

\* the table of longest common subsequence lengths of the line prefixes
computeLCS(oldLines, newLines) ==
    LET m == Len(oldLines)
        n == Len(newLines)
        dp[i \in 0..m, j \in 0..n] ==
            IF i = 0 \/ j = 0 THEN 0
            ELSE IF oldLines[i] = newLines[j] THEN dp[i - 1, j - 1] + 1
            ELSE IF dp[i - 1, j] >= dp[i, j - 1] THEN dp[i - 1, j] ELSE dp[i, j - 1]
    IN  dp

\* a backtrack that pairs no lines: every old line removed, every new added
backtrackDiff_NoCommonLines(dp, oldLines, newLines) ==
    [i \in 1..Len(oldLines) |->
        [type |-> "removed", content |-> oldLines[i],
         oldLineNumber |-> i, newLineNumber |-> 0]]
    \o [j \in 1..Len(newLines) |->
        [type |-> "added", content |-> newLines[j],
         oldLineNumber |-> 0, newLineNumber |-> j]]

\* the DiffLine list, first line first; line number 0 stands for null
backtrackDiff(dp, oldLines, newLines) ==
    LET RECURSIVE pending(_, _)
        pending(i, j) ==
            IF i = 0 /\ j = 0 THEN <<>>
            ELSE IF i > 0 /\ j > 0 /\ oldLines[i] = newLines[j]
            THEN Append(pending(i - 1, j - 1),
                        [type |-> "unchanged", content |-> oldLines[i],
                         oldLineNumber |-> i, newLineNumber |-> j])
            ELSE IF j > 0 /\ (i = 0 \/ dp[i, j - 1] >= dp[i - 1, j])
            THEN Append(pending(i, j - 1),
                        [type |-> "added", content |-> newLines[j],
                         oldLineNumber |-> 0, newLineNumber |-> j])
            ELSE Append(pending(i - 1, j),
                        [type |-> "removed", content |-> oldLines[i],
                         oldLineNumber |-> i, newLineNumber |-> 0])
    IN  pending(Len(oldLines), Len(newLines))

\* createHunks' default for contextLines
contextLines == 3

\* Array.slice(-n)
lastLines(lines, n) ==
    SubSeq(lines, IF Len(lines) > n THEN Len(lines) - n + 1 ELSE 1, Len(lines))

\* hunk.lines.push({ ...line, type: 'context' }) for each of the lines
withContext(hunk, lines) ==
    [hunk EXCEPT !.lines =
        @ \o [i \in 1..Len(lines) |-> [lines[i] EXCEPT !.type = "context"]]]

\* one pass of the loop of createHunks; currentHunk is <<>> for null
hunkStep(st, line) ==
    IF line.type = "unchanged"
    THEN LET buffer == Append(st.unchangedBuffer, line)
         IN  IF Len(buffer) > contextLines * 2 /\ st.currentHunk # <<>>
             THEN [hunks |-> Append(st.hunks,
                                    withContext(st.currentHunk[1],
                                                SubSeq(buffer, 1, contextLines))),
                   currentHunk |-> <<>>,
                   unchangedBuffer |-> lastLines(buffer, contextLines)]
             ELSE [st EXCEPT !.unchangedBuffer = buffer]
    ELSE LET leadingContext == lastLines(st.unchangedBuffer, contextLines)
             first == IF leadingContext # <<>> THEN leadingContext[1] ELSE line
             hunk ==
                IF st.currentHunk = <<>>
                THEN withContext(
                        [oldStart |-> IF first.oldLineNumber = 0 THEN 1
                                      ELSE first.oldLineNumber,
                         oldLines |-> 0,
                         newStart |-> IF first.newLineNumber = 0 THEN 1
                                      ELSE first.newLineNumber,
                         newLines |-> 0,
                         lines |-> <<>>],
                        leadingContext)
                ELSE withContext(st.currentHunk[1], st.unchangedBuffer)
         IN  [hunks |-> st.hunks,
              currentHunk |-> <<[hunk EXCEPT !.lines = Append(@, line)]>>,
              unchangedBuffer |-> <<>>]

createHunks(lines) ==
    LET RECURSIVE after(_)
        after(k) ==
            IF k = 0
            THEN [hunks |-> <<>>, currentHunk |-> <<>>, unchangedBuffer |-> <<>>]
            ELSE hunkStep(after(k - 1), lines[k])
        end == after(Len(lines))
        trailing == SubSeq(end.unchangedBuffer, 1,
                           IF Len(end.unchangedBuffer) < contextLines
                           THEN Len(end.unchangedBuffer) ELSE contextLines)
        hunks == IF end.currentHunk # <<>>
                 THEN Append(end.hunks, withContext(end.currentHunk[1], trailing))
                 ELSE end.hunks
        count(hunk, type) ==
            Cardinality({i \in 1..Len(hunk.lines) : hunk.lines[i].type # type})
    IN  [h \in 1..Len(hunks) |->
            [hunks[h] EXCEPT !.oldLines = count(hunks[h], "added"),
                             !.newLines = count(hunks[h], "removed")]]

computeDiff(old, new) ==
    LET oldLines == splitLines(old)
        newLines == splitLines(new)
        dp == computeLCS(oldLines, newLines)
        diffLines == backtrackDiff(dp, oldLines, newLines)
        hunks == createHunks(diffLines)
        additions ==
            Cardinality({i \in 1..Len(diffLines) : diffLines[i].type = "added"})
        deletions ==
            Cardinality({i \in 1..Len(diffLines) : diffLines[i].type = "removed"})
    IN  [oldContent |-> old, newContent |-> new, hunks |-> hunks,
         additions |-> additions, deletions |-> deletions,
         hasChanges |-> additions > 0 \/ deletions > 0]

\* the contents compared: up to MaxDiffLines lines, each empty or one
\* character, joined by '\n'
RECURSIVE DiffContents(_)
DiffContents(n) ==
    LET lines == {<<>>, <<"x">>, <<"y">>}
    IN  IF n = 1 THEN lines
        ELSE DiffContents(n - 1)
             \cup {line \o <<"\n">> \o rest :
                        line \in lines, rest \in DiffContents(n - 1)}

InitDiff ==
    /\ oldContent = <<>>
    /\ newContent = <<>>
    /\ diffResult = "none"
    /\ diffCalled = FALSE

\* k lines "x", each with its line end
padLines(k) == [i \in 1..(2 * k) |-> IF i % 2 = 1 THEN "x" ELSE "\n"]

\* Array.join('\n')
RECURSIVE joinLines(_)
joinLines(lines) ==
    IF lines = <<>> THEN <<>>
    ELSE IF Len(lines) = 1 THEN lines[1]
    ELSE lines[1] \o <<"\n">> \o joinLines(Tail(lines))

\* the lines of all hunks, in order
RECURSIVE getAllDiffLines(_)
getAllDiffLines(diff) ==
    IF diff.hunks = <<>> THEN <<>>
    ELSE diff.hunks[1].lines \o getAllDiffLines([diff EXCEPT !.hunks = Tail(@)])

\* applyDiff: the lines that are not removed, joined
applyDiff(old, lines) ==
    LET RECURSIVE pushed(_)
        pushed(k) ==
            IF k = 0 THEN <<>>
            ELSE IF lines[k].type # "removed"
            THEN Append(pushed(k - 1), lines[k].content)
            ELSE pushed(k - 1)
    IN  joinLines(pushed(Len(lines)))

\* one call, on any two contents after any number of lines they share
ComputeDiff ==
    /\ ~diffCalled
    /\ \E old \in DiffContents(MaxDiffLines), new \in DiffContents(MaxDiffLines),
          k \in 0..MaxPadLines :
            /\ oldContent' = padLines(k) \o old
            /\ newContent' = padLines(k) \o new
            /\ diffResult' = computeDiff(padLines(k) \o old, padLines(k) \o new)
    /\ diffCalled' = TRUE
    /\ UNCHANGED notDiffVars

\* -------------------------------------------------------- computeGitBlobSha

\* TextEncoder.encode: one byte for an ASCII character, two for U+00E9
RECURSIVE encode(_)
encode(s) ==
    IF s = <<>> THEN <<>>
    ELSE (IF s[1] = "U+00E9" THEN <<"0xC3", "0xA9">> ELSE <<s[1]>>)
         \o encode(Tail(s))

\* the decimal digits of a length, as the template literal writes them
RECURSIVE decimal(_)
decimal(n) ==
    LET digits == <<"0", "1", "2", "3", "4", "5", "6", "7", "8", "9">>
    IN  IF n < 10 THEN <<digits[n + 1]>>
        ELSE decimal(n \div 10) \o <<digits[(n % 10) + 1]>>

\* crypto.subtle.digest('SHA-1', bytes), taken as free of collisions: the
\* digest stands for the bytes hashed
sha1Digest(bytes) == [algorithm |-> "SHA-1", of |-> bytes]

\* computeGitBlobSha that leaves a lone \r in place
computeGitBlobSha_CrLfOnly(content) ==
    LET normalizedContent == replaceAll(content, <<"\r", "\n">>, <<"\n">>)
        contentBytes == encode(normalizedContent)
        headerBytes ==
            encode(<<"b", "l", "o", "b", " ">> \o decimal(Len(contentBytes))
                   \o <<"NUL">>)
    IN  sha1Digest(headerBytes \o contentBytes)

computeGitBlobSha(content) ==
    LET normalizedContent ==
            replaceAll(replaceAll(content, <<"\r", "\n">>, <<"\n">>),
                       <<"\r">>, <<"\n">>)
        contentBytes == encode(normalizedContent)
        headerBytes ==
            encode(<<"b", "l", "o", "b", " ">> \o decimal(Len(contentBytes))
                   \o <<"NUL">>)
    IN  sha1Digest(headerBytes \o contentBytes)

\* text contents: a letter, both line-ending characters, a two-byte character
ShaContents == SeqsUpTo({"x", "\r", "\n", "U+00E9"}, MaxShaLen)

InitSha ==
    /\ shaContent = <<>>
    /\ shaResult = "none"
    /\ shaCalled = FALSE

\* one call, on any content
ComputeGitBlobSha ==
    /\ ~shaCalled
    /\ \E content \in ShaContents :
            /\ shaContent' = content
            /\ shaResult' = computeGitBlobSha(content)
    /\ shaCalled' = TRUE
    /\ UNCHANGED notShaVars

\* ----------------------------------------------------------------- pullFile

\* local paths as their segments: text and binary files at the root, in a
\* folder and in a nested folder
PullPaths ==
    {<<"a.md">>, <<"d", "a.md">>, <<"d", "e", "a.md">>,
     <<"i.png">>, <<"d", "i.png">>}

\* getParentPath: the path up to its last '/', <<>> for a path at the root
getParentPath(path) == SubSeq(path, 1, Len(path) - 1)

\* isBinaryFile: the extension is one of BINARY_EXTENSIONS
isBinaryFile(path) == path[Len(path)] = "i.png"

InitPull ==
    /\ folders = {}
    /\ localFiles = [path \in {} |-> "old"]
    /\ pullPath = <<>>
    /\ pullFileResult = "none"

\* the user creates a folder inside an existing one
CreateFolder(folder) ==
    /\ pullPath = <<>>
    /\ folder \notin folders
    /\ getParentPath(folder) \in folders \cup {<<>>}
    /\ folders' = folders \cup {folder}
    /\ UNCHANGED <<localFiles, pullPath, pullFileResult>>
    /\ UNCHANGED notPullVars

\* the user creates a file in an existing folder
CreateLocalFile(path) ==
    /\ pullPath = <<>>
    /\ path \notin DOMAIN localFiles
    /\ getParentPath(path) \in folders \cup {<<>>}
    /\ localFiles' = (path :> "old") @@ localFiles
    /\ UNCHANGED <<folders, pullPath, pullFileResult>>
    /\ UNCHANGED notPullVars

\* pullFile with a transport that delivers the content.  vault.modify
\* overwrites an existing file; vault.create and adapter.writeBinary write
\* into an existing folder and raise when the folder is missing; pullFile
\* does not call ensureParentFolders
PullFile(path) ==
    /\ pullPath = <<>>
    /\ pullPath' = path
    /\ LET parentExists == getParentPath(path) \in folders \cup {<<>>}
           written ==
                IF isBinaryFile(path) THEN parentExists
                ELSE IF path \in DOMAIN localFiles THEN TRUE
                ELSE parentExists
       IN  /\ localFiles' = IF written THEN (path :> "new") @@ localFiles
                            ELSE localFiles
           /\ pullFileResult' =
                    [path |-> path, action |-> "pulled", success |-> written]
    /\ UNCHANGED folders
    /\ UNCHANGED notPullVars

\* ----------------------------------------------- saveSettings, saveSyncState

InitStore ==
    /\ stored = [settings |-> 0, syncState |-> 0]
    /\ settings = 0
    /\ pluginSyncState = 0
    /\ settingsPc = "idle"
    /\ settingsData = stored
    /\ statePc = "idle"
    /\ stateData = stored

\* the settings tab changes plugin.settings and calls saveSettings
SaveSettings ==
    /\ settingsPc = "idle"
    /\ settings < MaxSaves
    /\ settings' = settings + 1
    /\ settingsPc' = "load"
    /\ UNCHANGED <<stored, pluginSyncState, settingsData, statePc, stateData>>
    /\ UNCHANGED notStoreVars

\* const data = await this.loadData() || {}
SaveSettingsLoad ==
    /\ settingsPc = "load"
    /\ settingsData' = stored
    /\ settingsPc' = "save"
    /\ UNCHANGED <<stored, settings, pluginSyncState, statePc, stateData>>
    /\ UNCHANGED notStoreVars

\* await this.saveData({ ...this.settings, syncState: data.syncState })
SaveSettingsSave ==
    /\ settingsPc = "save"
    /\ stored' = [settings |-> settings, syncState |-> settingsData.syncState]
    /\ settingsPc' = "idle"
    /\ UNCHANGED <<settings, pluginSyncState, settingsData, statePc, stateData>>
    /\ UNCHANGED notStoreVars

\* performSync sets plugin.syncState and calls saveSyncState
SaveSyncState ==
    /\ statePc = "idle"
    /\ pluginSyncState < MaxSaves
    /\ pluginSyncState' = pluginSyncState + 1
    /\ statePc' = "load"
    /\ UNCHANGED <<stored, settings, settingsPc, settingsData, stateData>>
    /\ UNCHANGED notStoreVars

SaveSyncStateLoad ==
    /\ statePc = "load"
    /\ stateData' = stored
    /\ statePc' = "save"
    /\ UNCHANGED <<stored, settings, pluginSyncState, settingsPc, settingsData>>
    /\ UNCHANGED notStoreVars

\* data.syncState = this.syncState; await this.saveData(data)
SaveSyncStateSave ==
    /\ statePc = "save"
    /\ stored' = [stateData EXCEPT !.syncState = pluginSyncState]
    /\ statePc' = "idle"
    /\ UNCHANGED <<settings, pluginSyncState, settingsPc, settingsData, stateData>>
    /\ UNCHANGED notStoreVars

\* ------------------------------------------------ configure during a sync

\* the pattern lists the settings tab can pass to configure, by name: the
\* defaults, and the defaults with one pattern added.  The service's field
\* holds the name of its list.
ConfigPatternSets ==
    [defaults |-> ignorePatterns,
     added |-> ignorePatterns \cup {configDir \o <<"/", "*", "*">>}]

\* the subfolder settings the settings tab can pass to configure
ConfigSubfolders == {<<>>, <<"a">>}

\* the paths buildLocalIndex keeps under each pattern list
indexedUnder ==
    [patterns \in DOMAIN ConfigPatternSets |->
        {path \in TreeFiles :
            ~matchesIgnorePattern(path, ConfigPatternSets[patterns])}]

InitConfig ==
    /\ serviceIgnorePatterns = "defaults"
    /\ serviceSubfolderPath = <<>>
    /\ startConfiguration = <<"defaults", <<>> >>
    /\ startIndex = {}
    /\ pushedPaths = {}
    /\ endIndex = {}
    /\ cpc = "idle"

\* configure(ignorePatterns, subfolderPath), from a handler of the settings
\* tab: it runs whenever the event loop is free, a suspended sync included
ConfigureService(patterns, sub) ==
    /\ serviceIgnorePatterns' = patterns
    /\ serviceSubfolderPath' = sub
    /\ UNCHANGED <<startConfiguration, startIndex, pushedPaths, endIndex, cpc>>
    /\ UNCHANGED notConfigVars

\* sync is called and runs to its first await after the index builds
SyncBuildIndexes ==
    /\ cpc = "idle"
    /\ startConfiguration' = <<serviceIgnorePatterns, serviceSubfolderPath>>
    /\ startIndex' = indexedUnder[serviceIgnorePatterns]
    /\ pushedPaths' = {}
    /\ endIndex' = {}
    /\ cpc' = "apply"
    /\ UNCHANGED <<serviceIgnorePatterns, serviceSubfolderPath>>
    /\ UNCHANGED notConfigVars

\* pushChanges of a vault whose files are all new: toRemotePath of each path
SyncPushChanges ==
    /\ cpc = "apply"
    /\ pushedPaths' = {toRemotePathIn(serviceSubfolderPath, path) : path \in startIndex}
    /\ cpc' = "rebuild"
    /\ UNCHANGED <<serviceIgnorePatterns, serviceSubfolderPath, startConfiguration,
                   startIndex, endIndex>>
    /\ UNCHANGED notConfigVars

\* the index builds after the apply
SyncRebuildIndexes ==
    /\ cpc = "rebuild"
    /\ endIndex' = indexedUnder[serviceIgnorePatterns]
    /\ cpc' = "done"
    /\ UNCHANGED <<serviceIgnorePatterns, serviceSubfolderPath, startConfiguration,
                   startIndex, pushedPaths>>
    /\ UNCHANGED notConfigVars

\* sync returns
SyncReturn ==
    /\ cpc = "done"
    /\ cpc' = "idle"
    /\ UNCHANGED <<serviceIgnorePatterns, serviceSubfolderPath, startConfiguration,
                   startIndex, pushedPaths, endIndex>>
    /\ UNCHANGED notConfigVars

\* ------------------------------------------------------- sync with options

\* SyncOptions.direction and SyncOptions.dryRun; FALSE stands for undefined
SyncOptionValues == [direction : Directions, dryRun : BOOLEAN]

InitDry ==
    /\ dryVault = [p \in Files |-> IF p \in IgnoredPaths THEN 1 ELSE Absent]
    /\ dryTree = [p \in Files |-> Absent]
    /\ syncOptions = [direction |-> "sync", dryRun |-> FALSE]
    /\ dpc = "idle"

\* the user or another writer edits a file while no sync runs
EditBeforeSync(local, p, c) ==
    /\ dpc = "idle"
    /\ IF local
       THEN dryVault[p] # c /\ dryVault' = [dryVault EXCEPT ![p] = c]
                           /\ dryTree' = dryTree
       ELSE dryTree[p] # c /\ dryTree' = [dryTree EXCEPT ![p] = c]
                          /\ dryVault' = dryVault
    /\ UNCHANGED <<syncOptions, dpc>>
    /\ UNCHANGED notDryVars

\* sync(owner, repo, branch, message, undefined, opts), from the index builds
\* to the return, with a transport and a vault that do not fail: the
\* only field of the options that sync reads besides paths is direction
SyncWithOptions(opts) ==
    /\ dpc = "idle"
    /\ LET dir == opts.direction
           li == buildLocalIndex(dryVault)
           ri == buildRemoteIndex(dryTree)
           ch == compareIndexes(li, ri, NoState)
           pullSet == {p \in Files : /\ ch[p] # "none"
                                     /\ inToPull(ch[p], li[p], ri[p],
                                                 lastShaOf(NoState, p), dir)}
           pushSet == {p \in Files : /\ ch[p] # "none"
                                     /\ inToPush(ch[p], li[p], ri[p],
                                                 lastHashOf(NoState, p), dir)}
           pulled == IF pullSet # {} /\ dir # "push"
                     THEN pullChanges(dryVault, dryTree, ch, changeOrder(li, ri),
                                      ri, pullSet, {}).vault
                     ELSE dryVault
           pushed == IF pushSet # {} /\ dir # "pull"
                     THEN pushChanges(pulled, dryTree, ch, li, pushSet, {}, FALSE).tree
                     ELSE dryTree
       IN  /\ dryVault' = pulled
           /\ dryTree' = pushed
    /\ syncOptions' = opts
    /\ dpc' = "returned"
    /\ UNCHANGED notDryVars

\* the caller takes the result
AfterSync ==
    /\ dpc = "returned"
    /\ dpc' = "idle"
    /\ UNCHANGED <<dryVault, dryTree, syncOptions>>
    /\ UNCHANGED notDryVars

Init ==
    InitSync /\ InitBatch /\ InitPlugin /\ InitPaths /\ InitGlob /\ InitIgnore
    /\ InitDiff /\ InitSha /\ InitPull /\ InitStore /\ InitConfig /\ InitDry

Next ==
    \/ \E p \in Paths, c \in Contents \cup {Absent} : LocalEdit(p, c)
    \/ \E p \in Paths, c \in Contents \cup {Absent} : RemoteEdit(p, c)
    \/ \E dir \in Directions, paths \in PathFilters : SyncStart(dir, paths)
    \/ \E failed \in SUBSET Paths : PullStep(failed)
    \/ \E readFailed \in SUBSET Paths, commitFails \in BOOLEAN :
          PushStep(readFailed, commitFails)
    \/ Rebuild
    \/ Persist
    \/ \E dir \in Directions, paths \in PathFilters : SyncStartFails(dir, paths)
    \/ RebuildFails
    \/ Catch

Spec == Init /\ [][Next]_vars

NextBatch ==
    \/ \E p \in Paths : OtherPush(p)
    \/ \E chs \in Batches, retryCount \in RetryCounts :
          CreateBatchCommit(chs, retryCount)
    \/ GetRef
    \/ GetCommit
    \/ CreateBlob
    \/ CreateTree
    \/ CreateCommit
    \/ UpdateRef
    \/ UpdateRefRejected
    \/ Fail
    \/ Retry

SpecBatch == Init /\ [][NextBatch]_vars

NextPlugin ==
    \/ SetReady
    \/ \E t \in Triggers : PerformSync(t)
    \/ \E t \in Triggers : SyncReturns(t)
    \/ \E t \in Triggers : SaveReturns(t)
    \/ \E t \in Triggers : SyncRaises(t)

SpecPlugin == Init /\ [][NextPlugin]_vars

NextPaths ==
    \/ \E sub \in SubfolderValues : Configure(sub)
    \/ \E p \in VaultPaths : ToRemotePath(p)
    \/ ToLocalPath

SpecPaths == Init /\ [][NextPaths]_vars

NextGlob == MatchesIgnorePattern

SpecGlob == Init /\ [][NextGlob]_vars

NextIgnore ==
    \/ \E patterns \in SUBSET PatternPool, flag \in BOOLEAN :
            ConfigureIgnore(patterns, flag)
    \/ BuildIndexes

SpecIgnore == Init /\ [][NextIgnore]_vars

NextDiff == ComputeDiff

SpecDiff == Init /\ [][NextDiff]_vars

NextSha == ComputeGitBlobSha

SpecSha == Init /\ [][NextSha]_vars

NextPull ==
    \/ \E folder \in {<<"d">>, <<"d", "e">>} : CreateFolder(folder)
    \/ \E path \in PullPaths : CreateLocalFile(path)
    \/ \E path \in PullPaths : PullFile(path)

SpecPull == Init /\ [][NextPull]_vars

NextStore ==
    \/ SaveSettings \/ SaveSettingsLoad \/ SaveSettingsSave
    \/ SaveSyncState \/ SaveSyncStateLoad \/ SaveSyncStateSave

SpecStore == Init /\ [][NextStore]_vars

NextConfig ==
    \/ \E patterns \in DOMAIN ConfigPatternSets, sub \in ConfigSubfolders :
          ConfigureService(patterns, sub)
    \/ SyncBuildIndexes
    \/ SyncPushChanges
    \/ SyncRebuildIndexes
    \/ SyncReturn

SpecConfig == Init /\ [][NextConfig]_vars

NextDry ==
    \/ \E local \in BOOLEAN, p \in Paths, c \in Contents \cup {Absent} :
          EditBeforeSync(local, p, c)
    \/ \E opts \in SyncOptionValues : SyncWithOptions(opts)
    \/ AfterSync

SpecDry == Init /\ [][NextDry]_vars

\* ------------------------------------------------------------------ claims

\* the indexes and the partition of the running sync are available
Partitioned == pc \in {"pull", "push", "rebuild", "done"}

\* path p passed the options.paths filter of the running sync
Selected(p) == optPaths = {} \/ p \in optPaths

LocalOnly(p) == localIndex[p] # NoEntry /\ remoteIndex[p] = NoEntry
RemoteOnly(p) == localIndex[p] = NoEntry /\ remoteIndex[p] # NoEntry
OnBothSides(p) == localIndex[p] # NoEntry /\ remoteIndex[p] # NoEntry

LocalContent(p) == CHOOSE c \in Contents : localIndex[p] = hashContent(c)
RemoteContent(p) == CHOOSE c \in Contents : remoteIndex[p] = blobSha(c)

\* C2: the newState returned by sync maps exactly the files present in the
\* vault after the apply steps (ignored ones excepted) to their content hash
\* and exactly the files on the branch after the apply steps to their blob
\* sha.
C2_NewStateFromRebuiltIndexes ==
    pc = "done" =>
        \A p \in Files :
            /\ newState.fileHashes[p] =
                  (IF vault[p] # Absent /\ p \notin IgnoredPaths
                   THEN hashContent(vault[p]) ELSE NoEntry)
            /\ newState.fileShas[p] =
                  (IF remoteTree[p] # Absent /\ p \notin IgnoredPaths
                   THEN blobSha(remoteTree[p]) ELSE NoEntry)

\* a sync that both pulled and pushed a file has returned
C2_Witness ==
    pc = "done" /\ result.filesPulled > 0 /\ result.filesPushed > 0

\* C3: a path on both sides with differing content, whose local hash differs
\* from the baseline's content hash (or has none) and whose remote sha differs
\* from the baseline's sha (or has none), is classified conflict.
C3_BothChangedIsConflict ==
    Partitioned =>
        \A p \in Files :
            ( /\ Selected(p)
              /\ OnBothSides(p)
              /\ LocalContent(p) # RemoteContent(p)
              /\ localIndex[p] # lastHashOf(lastSyncState, p)
              /\ remoteIndex[p] # lastShaOf(lastSyncState, p) )
            => changes[p] = "conflict"

\* a conflict where the baseline has a sha but no content hash for the path
C3_Witness ==
    /\ Partitioned
    /\ \E p \in Paths :
          /\ changes[p] = "conflict"
          /\ LocalContent(p) # RemoteContent(p)
          /\ lastHashOf(lastSyncState, p) = NoEntry
          /\ lastShaOf(lastSyncState, p) \notin {NoEntry, remoteIndex[p]}

\* C4: a change with status conflict is in neither the pull set nor the push
\* set, its path is listed in result.conflicts, and during the sync neither
\* its local file nor its blob on the branch changes.
C4_ConflictUntouched ==
    Partitioned =>
        \A p \in Files :
            changes[p] = "conflict" =>
                /\ p \notin toPull
                /\ p \notin toPush
                /\ p \in result.conflicts
                /\ vault[p] = LocalContent(p)
                /\ remoteTree[p] = RemoteContent(p)

\* a sync with a conflict on one path has processed another path and returned
C4_Witness ==
    /\ pc = "done"
    /\ \E p \in Paths : changes[p] = "conflict"
    /\ result.filesProcessed > 0

\* C5: direction pull gives an empty push set and leaves the branch as it
\* was indexed, without a commit; direction push gives an empty pull set and
\* leaves the vault as it was indexed.
C5_DirectionRespected ==
    Partitioned =>
        /\ direction = "pull" =>
              /\ toPush = {}
              /\ result.commitSha = "none"
              /\ \A p \in Files : buildRemoteIndex(remoteTree)[p] = remoteIndex[p]
        /\ direction = "push" =>
              /\ toPull = {}
              /\ \A p \in Files : buildLocalIndex(vault)[p] = localIndex[p]

\* a pull-only sync has pulled a file while a local-only file waited
C5_Witness ==
    /\ pc = "done"
    /\ direction = "pull"
    /\ result.filesPulled > 0
    /\ \E p \in Paths : Selected(p) /\ LocalOnly(p)

\* C6: under direction sync or push, a remote-only path with status deleted
\* is in the push set and not in the pull set; a sync that ends without error
\* has removed it from the branch and has not re-created the local file.
C6_LocalDeletionPushed ==
    (Partitioned /\ direction \in {"sync", "push"}) =>
        \A p \in Files :
            (changes[p] = "deleted" /\ RemoteOnly(p)) =>
                /\ p \in toPush
                /\ p \notin toPull
                /\ (pc = "done" /\ result.success /\ result.errors = {}) =>
                      (remoteTree[p] = Absent /\ vault[p] = Absent)

\* C7: under direction sync or pull, a local-only path with status deleted is
\* in the pull set and not in the push set; a sync that ends without error
\* has deleted the local file and has not re-created the path on the branch.
C7_RemoteDeletionPulled ==
    (Partitioned /\ direction \in {"sync", "pull"}) =>
        \A p \in Files :
            (changes[p] = "deleted" /\ LocalOnly(p)) =>
                /\ p \in toPull
                /\ p \notin toPush
                /\ (pc = "done" /\ result.success /\ result.errors = {}) =>
                      (vault[p] = Absent /\ remoteTree[p] = Absent)

\* C8: under direction sync a remote-only added path is in the pull set and
\* not in the push set, and a local-only added path is in the push set and
\* not in the pull set.
C8_AddedFlowsToMissingSide ==
    (Partitioned /\ direction = "sync") =>
        \A p \in Files :
            changes[p] = "added" =>
                /\ RemoteOnly(p) => (p \in toPull /\ p \notin toPush)
                /\ LocalOnly(p) => (p \in toPush /\ p \notin toPull)

\* a two-way sync sees a new remote file and a new local file
C8_Witness ==
    /\ Partitioned
    /\ direction = "sync"
    /\ \E p, q \in Paths :
          /\ changes[p] = "added" /\ RemoteOnly(p)
          /\ changes[q] = "added" /\ LocalOnly(q)

\* C9: a path on both sides whose local address hash equals its remote
\* address hash is classified unchanged, whatever the baseline.
C9_IdenticalContentUnchanged ==
    Partitioned =>
        \A p \in Files :
            ( /\ Selected(p)
              /\ OnBothSides(p)
              /\ blobSha(LocalContent(p)) = remoteIndex[p] )
            => changes[p] = "unchanged"

\* C10: a local-only path is deleted if the baseline has a sha for it and
\* added otherwise; a remote-only path is deleted if the baseline has a
\* content hash for it and added otherwise.
C10_OneSidedFromBaseline ==
    Partitioned =>
        \A p \in Files :
            Selected(p) =>
                /\ LocalOnly(p) =>
                      changes[p] = (IF lastShaOf(lastSyncState, p) # NoEntry
                                    THEN "deleted" ELSE "added")
                /\ RemoteOnly(p) =>
                      changes[p] = (IF lastHashOf(lastSyncState, p) # NoEntry
                                    THEN "deleted" ELSE "added")

\* a local-only path classified deleted by a baseline that has a sha but no
\* content hash for it
C10_Witness ==
    /\ Partitioned
    /\ \E p \in Paths :
          /\ LocalOnly(p)
          /\ changes[p] = "deleted"
          /\ lastHashOf(lastSyncState, p) = NoEntry

\* C11: a sync invoked without a baseline goes through all its steps, no
\* path is classified deleted, every one-sided path is classified added, no
\* file the vault held at the start is missing afterwards and no path the
\* branch held at the start is missing afterwards.
C11_NoBaselineNoDeletion ==
    (Partitioned /\ ~lastSyncState.present) =>
        /\ \A p \in Files :
              /\ changes[p] # "deleted"
              /\ (Selected(p) /\ (LocalOnly(p) \/ RemoteOnly(p))) =>
                    changes[p] = "added"
              /\ localIndex[p] # NoEntry => vault[p] # Absent
              /\ remoteIndex[p] # NoEntry => remoteTree[p] # Absent
        /\ pc # "done" => ENABLED (PullStep({}) \/ PushStep({}, FALSE) \/ Rebuild)

\* a first sync (no baseline) over a vault and a branch that each hold a file
\* the other lacks has returned
C11_Witness ==
    /\ pc = "done"
    /\ ~lastSyncState.present
    /\ \E p, q \in Paths : LocalOnly(p) /\ RemoteOnly(q)

\* what the vault held at a path when the run started
VaultAtStart(p) == IF localIndex[p] = NoEntry THEN Absent ELSE LocalContent(p)

\* the pull step of the run has been executed
PullRan == pc \in {"push", "rebuild", "done"} /\ toPull # {} /\ direction # "push"

\* C17: pullChanges never raises, and returns one result for every path of the
\* pull set it acts on, in the order of the list of changes, whichever of them
\* fail: a successful result means the file was written from the branch or
\* deleted, a failed one that its path alone was left as it was and is
\* reported in the errors of the run.
C17_PullFailureIsPerFile ==
    /\ pc = "pull" =>
          \A failed \in SUBSET pullActs(changes, remoteIndex, toPull) :
             ENABLED PullStep(failed)
    /\ PullRan =>
          LET acts == pullActs(changes, remoteIndex, toPull)
              inActs(p) == p \in acts
              paths == SelectSeq(changeOrder(localIndex, remoteIndex), inActs)
          IN  /\ Len(pullResults) = Len(paths)
              /\ \A i \in 1..Len(paths) :
                    LET r == pullResults[i]
                    IN  /\ r.path = paths[i]
                        /\ r.success =>
                              /\ r.action = "pulled" => vault[r.path] = RemoteContent(r.path)
                              /\ r.action = "deleted-local" => vault[r.path] = Absent
                              /\ <<"pull", r.path>> \notin result.errors
                        /\ ~r.success =>
                              /\ vault[r.path] = VaultAtStart(r.path)
                              /\ <<"pull", r.path>> \in result.errors

C17_Witness ==
    /\ pc = "push"
    /\ Len(pullResults) = 2
    /\ ~pullResults[1].success
    /\ pullResults[2].success
    /\ vault[pullResults[2].path] = RemoteContent(pullResults[2].path)
    /\ vault[pullResults[2].path] # VaultAtStart(pullResults[2].path)

\* C16: the result of sync has success = false exactly when createBatchCommit
\* raised in the push step; conflicts, failed pulls and failed reads of files
\* to push leave success true and show in result.conflicts and result.errors.
C16_SuccessFalseOnlyOnBatchFailure ==
    /\ pc \in {"pull", "push"} => result.success
    /\ pc \in {"rebuild", "done"} =>
          (result.success <=> <<"batch", "commit">> \notin result.errors)
    /\ (pc \in {"rebuild", "done"} /\ result.success) =>
          /\ \A p \in Files : changes[p] = "conflict" /\ Selected(p)
                                  => p \in result.conflicts
          /\ \A i \in 1..Len(pullResults) :
                ~pullResults[i].success => <<"pull", pullResults[i].path>> \in result.errors

C16_Witness ==
    /\ pc = "done"
    /\ result.success
    /\ \E p, q \in Paths : <<"pull", p>> \in result.errors /\ <<"read", q>> \in result.errors

\* C18: when the transport fails while sync builds the remote index at its
\* start, no index is returned, sync raises with no file of the vault written
\* or deleted, no pull or push set and nothing sent to the branch, and
\* performSync then leaves plugin.syncState (in memory and saved) as it was.
C18_RemoteIndexFailureChangesNothing ==
    [][/\ (pc = "idle" /\ pc' = "raised") =>
             /\ UNCHANGED <<vault, remoteTree, syncState>>
             /\ remoteIndex' = EmptyIndex
             /\ toPull' = {} /\ toPush' = {}
             /\ pullResults' = <<>>
             /\ result' = EmptyResult
       /\ pc = "raised" =>
             /\ pc' = "idle"
             /\ UNCHANGED <<vault, remoteTree, syncState>>]_vars

C18_Witness ==
    /\ pc = "raised"
    /\ remoteIndex = EmptyIndex
    /\ result = EmptyResult
    /\ syncState.present
    /\ \E p \in Paths : remoteTree[p] # Absent /\ vault[p] # remoteTree[p]

\* positions of createBatchCommit after the getRef of the running attempt
AfterGetRef == bpc \in {"getCommit", "createBlob", "createTree", "createCommit", "updateRef"}

\* C12: createBatchCommit moves the branch only forward: the commit of an
\* attempt has one parent, the head that attempt's getRef returned, every
\* change of the branch ref keeps the previous head among the ancestors of
\* the new one, and so every commit another writer pushed stays in the
\* history of the branch.
C12_FastForwardOnly ==
    /\ [](/\ bpc = "updateRef" =>
               /\ commits[newCommitSha].parents = <<headsRead[attempt + 1]>>
               /\ commits[newCommitSha].author = "plugin"
          /\ \A i \in 1..Len(commits) :
                commits[i].author = "other" => i \in Ancestors(commits, head))
    /\ [][head' # head => head \in Ancestors(commits', head')]_vars

C12_Witness ==
    /\ bpc = "returned"
    /\ refUpdates = 1
    /\ attempt = 1
    /\ commits[head].author = "plugin"
    /\ \E i \in 1..Len(commits) :
          /\ commits[i].author = "other"
          /\ i > headsRead[1]
          /\ i \in Ancestors(commits, head)

\* C13: createBatchCommit makes at most maxRetries attempts: a rejected
\* non-fast-forward update is retried only while attempt < maxRetries - 1,
\* each retry reads the head and its tree anew, and a rejection on the last
\* attempt is raised.
C13_BoundedRetries ==
    /\ Len(headsRead) <= maxRetries
    /\ attempt <= Len(headsRead)
    /\ bpc = "sleep" => attempt < maxRetries - 1
    /\ (bpc = "raised" /\ thrown = "notFF") => attempt = maxRetries - 1
    /\ thrown = "exhausted" => maxRetries = 0
    /\ AfterGetRef =>
          /\ Len(headsRead) = attempt + 1
          /\ currentCommitSha = headsRead[attempt + 1]
          /\ bpc # "getCommit" => baseTreeSha = commits[currentCommitSha].tree
    /\ \A k \in 1..(Len(headsRead) - 1) :
          /\ headsRead[k] # headsRead[k + 1]
          /\ headsRead[k] \in Ancestors(commits, headsRead[k + 1])

C13_Witness ==
    /\ bpc = "raised"
    /\ thrown = "notFF"
    /\ maxRetries = DefaultRetryCount
    /\ Len(headsRead) = DefaultRetryCount
    /\ refUpdates = 0

\* C14: an error of getRef, getCommit, createBlob, createTree, createCommit or
\* updateRef other than the non-fast-forward rejection is raised by
\* createBatchCommit at once: no retry, no further attempt and no change of
\* the branch ref by the call, then or later.
C14_OtherErrorsNotRetried ==
    /\ [][(caught' = "other" /\ caught # "other") =>
             /\ bpc' = "raised"
             /\ thrown' = "other"
             /\ UNCHANGED <<head, commits, attempt, headsRead, refUpdates>>]_vars
    /\ [][bpc = "raised" =>
             /\ bpc' = "raised"
             /\ UNCHANGED <<attempt, headsRead, refUpdates, thrown>>]_vars
    /\ [](bpc = "raised" => refUpdates = 0)

C14_Witness ==
    /\ bpc = "raised"
    /\ thrown = "other"
    /\ attempt = 1
    /\ Len(treeItems) = 1
    /\ Len(batchChanges) = 2

\* C15: when the tree built from a non-empty batch is the base tree of the
\* head read in the attempt, createBatchCommit returns that head's commit id
\* and the base tree id, creating no commit and leaving the branch ref alone.
C15_NoNetChangeNoCommit ==
    [][(/\ bpc = "createTree"
        /\ bpc' \notin {"createTree", "raised"}
        /\ createTree(baseTreeSha, treeItems) = baseTreeSha) =>
          /\ bpc' = "returned"
          /\ ret' = [commitSha |-> currentCommitSha, treeSha |-> baseTreeSha]
          /\ UNCHANGED <<commits, head, refUpdates>>]_vars

C15_Witness ==
    /\ bpc = "returned"
    /\ Len(batchChanges) > 0
    /\ refUpdates = 0
    /\ ret = [commitSha |-> currentCommitSha, treeSha |-> baseTreeSha]
    /\ \A i \in 1..Len(commits) : commits[i].author # "plugin"
    /\ head = currentCommitSha

\* C19: at most one performSync call is past the isSyncing test at any time,
\* so at most one syncService.sync is in flight; a performSync call started
\* meanwhile returns null and neither calls sync nor reads or replaces
\* plugin.syncState.
C19_OneSyncInFlight ==
    /\ [](/\ Cardinality(InFlight) <= 1
          /\ isSyncing <=> InFlight # {})
    /\ [][(calls' # calls /\ InFlight # {}) =>
             /\ \E t \in Triggers :
                   lastReturn' = [lastReturn EXCEPT ![t] = "null: in progress"]
             /\ UNCHANGED <<syncCalls, baseline, syncArg, callPc, isSyncing>>]_vars

C19_Witness ==
    /\ \E t \in Triggers : callPc[t] = "sync"
    /\ \E u \in Triggers : callPc[u] = "idle" /\ lastReturn[u] = "null: in progress"
    /\ syncCalls = 2
    /\ baseline = 1

\* C20: mapping a vault path to its remote path and back gives the path
\* again, for every vault path and every text of the subfolder setting.
C20_RoundTrip == ppc = "back" => backPath = localPath

\* the glob rules, read directly: * is a run without '/', ? one character
\* other than '/', ** any run, every other character itself
RECURSIVE globMatch(_, _)
globMatch(s, glob) ==
    LET rest(k) == SubSeq(s, k + 1, Len(s))
        after(k) == SubSeq(glob, k + 1, Len(glob))
    IN  IF glob = <<>> THEN s = <<>>
        ELSE IF startsWith(glob, <<"*", "*">>)
        THEN \E k \in 0..Len(s) : globMatch(rest(k), after(2))
        ELSE IF glob[1] = "*"
        THEN \E k \in 0..Len(s) :
                (\A i \in 1..k : s[i] # "/") /\ globMatch(rest(k), after(1))
        ELSE IF glob[1] = "?"
        THEN s # <<>> /\ s[1] # "/" /\ globMatch(rest(1), after(1))
        ELSE s # <<>> /\ s[1] = glob[1] /\ globMatch(rest(1), after(1))

\* C22 as stated: matchesIgnorePattern is true exactly when some pattern, as
\* written, matches the whole normalized path under the glob rules
C22_MatchesPatternAsWritten ==
    globResult = \E pattern \in globPatterns :
                    globMatch(normalizePath(globPath), pattern)

\* C22: matchesIgnorePattern is true exactly when some pattern, normalized
\* like the path (backslashes to slashes, runs of slashes to one, one leading
\* and one trailing slash removed), matches the whole normalized path under
\* the glob rules
C22_MatchesNormalizedPattern ==
    globResult = \E pattern \in globPatterns :
                    globMatch(normalizePath(globPath), normalizePath(pattern))

\* a pattern with a wildcard and an escaped character has matched a path
C22_Witness ==
    /\ globCalled
    /\ globPath = <<"a", ".", "a">>
    /\ globPatterns = {<<"*", ".", "a">>}
    /\ globResult

\* C21: whatever patterns are configured and whatever the sync-configuration
\* flag, the sync-metadata file and every path under the plugin-storage
\* directory are in neither index, and every path under the configuration
\* directory is in neither index unless the flag is enabled
C21_ConfigurationExcluded ==
    ipc = "built" =>
        LET indexed == indexedLocal \cup indexedRemote
        IN  /\ metadataFile \notin indexed
            /\ pluginFile \notin indexed
            /\ ~syncConfiguration => configFile \notin indexed

\* C23: computeDiff of a content with itself has no hunk, additions = 0,
\* deletions = 0 and hasChanges = false, for every content
C23_SameContentNoChanges ==
    diffCalled /\ oldContent = newContent =>
        /\ diffResult.hunks = <<>>
        /\ diffResult.additions = 0
        /\ diffResult.deletions = 0
        /\ ~diffResult.hasChanges

\* a content of several lines, one of them empty, was compared with itself
C23_Witness ==
    /\ diffCalled
    /\ oldContent = <<"x", "\n", "\n", "y">>
    /\ newContent = oldContent
    /\ ~diffResult.hasChanges

\* the content with every \r\n and every lone \r replaced by \n, read left
\* to right
RECURSIVE LfOnly(_)
LfOnly(c) ==
    IF c = <<>> THEN <<>>
    ELSE IF c[1] = "\r" /\ Len(c) > 1 /\ c[2] = "\n"
    THEN <<"\n">> \o LfOnly(SubSeq(c, 3, Len(c)))
    ELSE IF c[1] = "\r" THEN <<"\n">> \o LfOnly(Tail(c))
    ELSE <<c[1]>> \o LfOnly(Tail(c))

\* C24: computeGitBlobSha(c) equals computeGitBlobSha of c with every \r\n
\* and every lone \r replaced by \n, and the length written in the hashed
\* header is the byte length of that normalized content
C24_ShaOfNormalizedContent ==
    shaCalled =>
        LET bytes == encode(LfOnly(shaContent))
        IN  /\ shaResult = computeGitBlobSha(LfOnly(shaContent))
            /\ shaResult.of =
                    <<"b", "l", "o", "b", " ">> \o decimal(Len(bytes))
                    \o <<"NUL">> \o bytes

\* a content with a \r\n, a lone \r and a two-byte character was hashed
C24_Witness ==
    /\ shaCalled
    /\ shaContent = <<"U+00E9", "\r", "\n", "\r">>
    /\ shaResult = computeGitBlobSha(<<"U+00E9", "\n", "\n">>)

\* the path changed on one side since the baseline, as the claims read it: no
\* baseline entry, or an entry that differs
LocalChanged(p) ==
    lastHashOf(lastSyncState, p) = NoEntry
    \/ localIndex[p] # lastHashOf(lastSyncState, p)
RemoteChanged(p) ==
    lastShaOf(lastSyncState, p) = NoEntry
    \/ remoteIndex[p] # lastShaOf(lastSyncState, p)

\* C25: a path in both indexes with status modified is in the push set iff
\* the direction allows push and it changed locally and not remotely, and in
\* the pull set iff the direction allows pull and it changed remotely and not
\* locally, also when the baseline has only one of its two entries
C25_ModifiedFollowsChangedSide ==
    Partitioned =>
        \A p \in Files :
            (Selected(p) /\ OnBothSides(p) /\ changes[p] = "modified") =>
                /\ p \in toPush <=>
                      (direction # "pull" /\ LocalChanged(p) /\ ~RemoteChanged(p))
                /\ p \in toPull <=>
                      (direction # "push" /\ RemoteChanged(p) /\ ~LocalChanged(p))

\* C27: a path in both indexes whose address hashes differ, while its local
\* content hash is the baseline's and its remote address hash is the
\* baseline's, is classified modified and is in neither the pull set nor the
\* push set
C27_DivergedButUnchangedIsModified ==
    Partitioned =>
        \A p \in Files :
            ( /\ Selected(p)
              /\ OnBothSides(p)
              /\ blobSha(LocalContent(p)) # remoteIndex[p]
              /\ localIndex[p] = lastHashOf(lastSyncState, p)
              /\ remoteIndex[p] = lastShaOf(lastSyncState, p) )
            => (changes[p] = "modified" /\ p \notin toPull /\ p \notin toPush)

\* C26: the pull set and the push set of one sync are disjoint, for every
\* local index, remote index, baseline, path filter and direction
C26_PullAndPushDisjoint ==
    Partitioned => toPull \cap toPush = {}

\* one sync with a baseline has a path to pull and another to push, one of
\* them changed on one side since the baseline
C26_Witness ==
    /\ Partitioned
    /\ lastSyncState.present
    /\ toPull # {}
    /\ toPush # {}
    /\ \E p \in toPull \cup toPush : changes[p] = "modified"

\* C28: the list compareIndexes returns has no entry with status unchanged,
\* one entry for every path of either index that has another status, and no
\* entry for any other path
C28_NoUnchangedEntries ==
    Partitioned =>
        LET list == compareIndexes(localIndex, remoteIndex, lastSyncState)
        IN  \A p \in Files :
                /\ list[p] # "unchanged"
                /\ (localIndex[p] = NoEntry /\ remoteIndex[p] = NoEntry)
                        <=> list[p] = "none"

\* the local files the push step of the sync failed to read
ReadFailures(r) == {p \in Files : <<"read", p>> \in r.errors}

\* a createBatchCommit call either returns a commit id or leaves the batch
\* error in the result: neither is there when no call was made
NoBatchCall(r) == r.commitSha = "none" /\ <<"batch", "commit">> \notin r.errors

\* C29: when the push set yields no operation, because it is empty or because
\* every local file of it failed to be read, pushChanges calls no transport
\* operation, creates no commit and returns success = true, filesPushed = 0,
\* filesDeleted = 0 and no commit id
C29_NothingToPushNoCall ==
    /\ [](LET r == pushChanges(vault, remoteTree, changes, localIndex, {}, {}, FALSE)
          IN  /\ r.success /\ r.filesPushed = 0 /\ r.filesDeleted = 0
              /\ NoBatchCall(r) /\ r.tree = remoteTree)
    /\ [][ ( /\ pc = "push" /\ pc' = "rebuild"
             /\ toPush # {} /\ direction # "pull"
             /\ \A p \in Files :
                   buildBatch(vault, changes, localIndex, toPush,
                              ReadFailures(result'))[p] = NoChange )
           => ( /\ remoteTree' = remoteTree
                /\ NoBatchCall(result')
                /\ result'.filesPushed = 0
                /\ result'.filesDeleted = result.filesDeleted
                /\ result'.success = result.success ) ]_vars

\* the push step of a sync ran with a push set none of whose files could be
\* read, and the sync went on without a commit
C29_Witness ==
    /\ pc = "rebuild"
    /\ toPush # {}
    /\ direction # "pull"
    /\ ReadFailures(result) = toPush
    /\ NoBatchCall(result)
    /\ result.success

\* the steps of one sync, in order: (indexes built, compared, partitioned),
\* pull applied, push submitted, indexes rebuilt; a sync that raised leaves
\* the order at its first or its last step
StepOrder ==
    {<<"idle", "pull">>, <<"pull", "push">>, <<"push", "rebuild">>,
     <<"rebuild", "done">>, <<"done", "idle">>,
     <<"idle", "raised">>, <<"rebuild", "raised">>, <<"raised", "idle">>}

\* C30: one sync builds both indexes, compares and partitions, applies every
\* pull, submits the one batch push and rebuilds both indexes, in this order
\* and one step at a time: the indexes and the partition are fixed before
\* the first apply step, the vault is written by the pull step only, the
\* branch by the push step only, and the baseline is computed after both,
\* from indexes of the vault and the branch as the apply steps left them
C30_StepsInOrder ==
    [][ /\ pc' # pc => <<pc, pc'>> \in StepOrder
        /\ <<localIndex, remoteIndex, changes, toPull, toPush>>'
               # <<localIndex, remoteIndex, changes, toPull, toPush>>
             => pc = "idle" \/ pc' = "idle"
        /\ pc' = "pull" /\ pc = "idle"
             => /\ localIndex' = buildLocalIndex(vault)
                /\ remoteIndex' = buildRemoteIndex(remoteTree)
        /\ vault' # vault => pc \in {"idle", "pull"}
        /\ remoteTree' # remoteTree => pc \in {"idle", "push"}
        /\ newState' # newState /\ pc' # "idle"
             => /\ pc = "rebuild"
                /\ vault' = vault /\ remoteTree' = remoteTree
                /\ newState' = buildNewState(buildLocalIndex(vault),
                                             buildRemoteIndex(remoteTree))
      ]_vars

\* a sync that wrote a pulled file, then committed a push, has rebuilt the
\* indexes and returned a new baseline
C30_Witness ==
    /\ pc = "done"
    /\ toPull # {} /\ toPush # {}
    /\ result.filesPulled > 0
    /\ result.commitSha = "head"
    /\ newState # lastSyncState

\* C31: pulling a remote file to a local path succeeds whether or not the
\* path and its parent folders exist: afterwards the parent folders exist and
\* the file holds the pulled content, for text and for binary files
C31_PullCreatesParents ==
    pullPath # <<>> =>
        /\ pullFileResult.success
        /\ pullPath \in DOMAIN localFiles
        /\ localFiles[pullPath] = "new"
        /\ getParentPath(pullPath) \in folders \cup {<<>>}

\* C32: applyDiff(old, getAllDiffLines(computeDiff(old, new))) equals new for
\* every old and new with hasChanges = true, whatever the number of unchanged
\* lines between and around the changed lines
C32_ApplyDiffGivesNew ==
    diffCalled /\ diffResult.hasChanges =>
        applyDiff(oldContent, getAllDiffLines(diffResult)) = newContent

\* C33: under every interleaving of saveSettings and saveSyncState,
\* saveSettings never changes the persisted baseline and saveSyncState never
\* changes the persisted settings, and once both have completed the data file
\* holds the syncState of the latest saveSyncState and the settings of the
\* latest saveSettings
C33_SavesDoNotInterfere ==
    /\ [](settingsPc = "idle" /\ statePc = "idle" =>
            stored = [settings |-> settings, syncState |-> pluginSyncState])
    /\ [][ /\ settingsPc = "save" /\ settingsPc' = "idle"
               => stored'.syncState = stored.syncState
           /\ statePc = "save" /\ statePc' = "idle"
               => stored'.settings = stored.settings ]_vars

\* C34: a sync uses one configuration throughout: the index built before the
\* apply, the remote paths of the push batch and the index built after the
\* apply all follow the ignore patterns and the subfolder the service held
\* when sync was called
C34_OneConfigurationPerSync ==
    cpc = "done" =>
        /\ startIndex = indexedUnder[startConfiguration[1]]
        /\ pushedPaths =
              {toRemotePathIn(startConfiguration[2], path) : path \in startIndex}
        /\ endIndex = indexedUnder[startConfiguration[1]]

\* C35: convergence: when a sync with direction sync and no path filter
\* returns success with no conflicts and no errors, every path that is not
\* ignored is on both sides with the same content, or on neither
C35_Convergence ==
    (/\ pc = "done"
     /\ direction = "sync"
     /\ optPaths = {}
     /\ result.success
     /\ result.conflicts = {}
     /\ result.errors = {})
        => \A p \in Files : ~shouldIgnore(p) => vault[p] = remoteTree[p]

\* C36: a path that a sync reports in result.conflicts is reported as a
\* conflict again by compareIndexes over the unchanged vault and branch with
\* the newState that sync returned
C36_ConflictStaysVisible ==
    pc = "done" =>
        \A p \in result.conflicts :
            compareIndexes(buildLocalIndex(vault), buildRemoteIndex(remoteTree),
                           newState)[p] = "conflict"

\* the status compareIndexes gives p in the next sync: unchanged vault and
\* branch, the newState of this sync as the baseline
NextStatus(p) ==
    compareIndexes(buildLocalIndex(vault), buildRemoteIndex(remoteTree), newState)[p]

\* p is in the pull set of the next sync of the same direction
InNextPull(p) ==
    /\ NextStatus(p) # "none"
    /\ inToPull(NextStatus(p), buildLocalIndex(vault)[p],
                buildRemoteIndex(remoteTree)[p], lastShaOf(newState, p), direction)

\* p is in the push set of the next sync of the same direction
InNextPush(p) ==
    /\ NextStatus(p) # "none"
    /\ inToPush(NextStatus(p), buildLocalIndex(vault)[p],
                buildRemoteIndex(remoteTree)[p], lastHashOf(newState, p), direction)

\* the paths of the batch this sync handed to createBatchCommit
BatchPaths ==
    {p \in Files :
        buildBatch(vault, changes, localIndex, toPush, ReadFailures(result))[p]
            # NoChange}

\* C37: a path whose pull failed, or that was in a batch whose commit failed,
\* is in the pull set or the push set of the next sync, run with the newState
\* this sync returned and no other change
C37_FailedChangeRetried ==
    pc = "done" =>
        \A p \in Files :
            (\/ <<"pull", p>> \in result.errors
             \/ (<<"batch", "commit">> \in result.errors /\ p \in BatchPaths))
                => (InNextPull(p) \/ InNextPush(p))

\* C38: no lost remote update: when createBatchCommit moves the branch to its
\* commit, every path of the batch whose content the commit replaces still
\* had, on the head it replaces, the content it had when the call first read
\* the branch: no other writer's change of that path is overwritten, on the
\* first attempt or on a retry
C38_NoLostRemoteUpdate ==
    [][ (bpc = "updateRef" /\ head' = newCommitSha)
            => \A i \in 1..Len(batchChanges) :
                  LET p == batchChanges[i].path
                  IN  \/ commits[head].tree[p] = commits[headsRead[1]].tree[p]
                      \/ commits[newCommitSha].tree[p] = commits[head].tree[p]
      ]_vars

\* C39: the sync guard is always released: every performSync call that set
\* isSyncing has cleared it when it returns, whether it returns the result
\* (success true or false) or null after sync or saveSyncState raised; with
\* no call in flight isSyncing is false
C39_GuardReleased ==
    /\ [](InFlight = {} => ~isSyncing)
    /\ [][\A t \in Triggers :
             (callPc[t] \in {"sync", "save"} /\ callPc'[t] = "idle")
                => /\ ~isSyncing'
                   /\ lastReturn'[t] \in {"result", "null: error"}]_vars

C39_Witness ==
    /\ ~isSyncing
    /\ InFlight = {}
    /\ \E t \in Triggers : lastReturn[t] = "null: error"
    /\ \E u \in Triggers : lastReturn[u] = "result"

\* C40: a sync called with options.dryRun = true writes and deletes no local
\* file and sends nothing that changes the branch: the vault and the branch
\* are after the call what they were before it
C40_DryRunChangesNothing ==
    [][ (dpc = "idle" /\ dpc' = "returned" /\ syncOptions'.dryRun)
            => (dryVault' = dryVault /\ dryTree' = dryTree) ]_vars

====
